---- MODULE Spec2Model ----
(***************************************************************************)
(* Task lifecycle orchestrator of main.py (and of its near-duplicate       *)
(* sweap_salvage_testing_script.py): the per-task pipeline, the resource   *)
(* registry _volatile, the release-all routine _cleanup and the signal     *)
(* handler _sig_handler.                                                   *)
(*                                                                         *)
(* Granularity: one step per external operation (a docker command, a       *)
(* download, an extraction, the agent, the test command).  In-memory       *)
(* bookkeeping that follows an operation with nothing that can fail in     *)
(* between is part of the same step, except the registration of a freshly  *)
(* created volume or container, which is a step of its own.  A signal is   *)
(* delivered while the program is at a step: either between statements or  *)
(* while the step's external operation is in flight.                       *)
(***************************************************************************)
EXTENDS Integers, Sequences, FiniteSets, TLC

\* ------------------------------------------------------------------ bounds
MaxTasks == 2
MaxSignals == 2
MaxReg == 2
MaxBatch == 3
MaxTime == 3
MaxPipe == 2
MaxTimeout == 2
MaxRows == 2
MaxDepth == 3
MaxEntries == 2

\* ---------------------------------------------------- constants of the code
\* time.sleep(5) after terminate(); proc.wait(timeout=10) in the finally
GraceSeconds == 5
WaitSeconds == 10

\* ------------------------------------------------------------- vocabulary
\* task ids of the rows that enter the pipeline; "A" and "a" differ only in case
TaskIds == {"a", "A", "b"}

\* the two entry points
Variants == {"main", "sweap"}

NoResult == [task_id |-> "", status |-> "none"]
NoVol == "-"
NoSummary == <<NoResult>>
NoCsv == [written |-> FALSE, header |-> <<>>, rows |-> <<>>]
NoLog == "absent"

\* str.lower() as used for image tags, container names and the "nan" test
Lower(t) ==
    CASE t = "A" -> "a"
      [] t = "NAN" -> "nan"
      [] OTHER -> t

\* a cell of the task_id column that pandas read as missing (NaN)
NaCell == "<NaN>"

\* what the task_id column can hold: ids, an id with surrounding blanks, a
\* cell of blanks only, a missing cell, text that lower-cases to "nan"
RawCells == TaskIds \cup {" a", " ", NaCell, "NAN"}

\* str(cell): a missing cell prints as "nan"
Str(c) == IF c = NaCell THEN "nan" ELSE c

\* str.strip()
Strip(t) ==
    CASE t = " a" -> "a"
      [] t = " " -> ""
      [] OTHER -> t

\* df = df[df["task_id"].notna()]; df = df[... .astype(str).str.strip() != ""]
DfKeep(c) == c # NaCell /\ Strip(Str(c)) # ""

\* task_id = str(row["task_id"]).strip()
RowTaskId(c) == Strip(Str(c))

\* if not task_id or task_id.lower() == "nan": continue
LoopSkip(t) == t = "" \/ Lower(t) = "nan"

\* volume_name = f"task_vol_{task_id}": the case of the id is kept
VolumeName(t) == "task_vol_" \o t

\* container = f"{CONTAINER_PREFIX}{task_id}".lower()
ContainerName(t) == "container_" \o Lower(t)

VolumeNames == {VolumeName(t) : t \in TaskIds}
ContainerNames == {ContainerName(t) : t \in TaskIds}

VARIABLES
    rows,         \* the task_id column of the sheet as read, in input order
    tasks,        \* the task ids of the rows the loop processes, in input order
    keep,         \* args.keep
    variant,      \* the entry point: "main" (main.py) or "sweap"
    pc,           \* position of the main flow
    idx,          \* number of the row being processed (0 before the loop)
    containers,   \* _volatile["containers"]   (a Python list)
    volumes,      \* _volatile["volumes"]      (a Python list)
    all_results,  \* all_results
    result_json,  \* task_dir / "result.json" per task id
    summary,      \* summary.json (NoSummary until written)
    summary_csv,  \* summary.csv: header and rows
    build_log,    \* task_dir / "build.log" per task id
    sup,          \* the agent supervisor (run_swe_agent_in_dedicated_container)
    unz,          \* an extraction: unzip_to and the .git test of main
    rn,           \* a call of the process runner (utils/command.py)
    dl,           \* a call of download_from_drive
    pair,         \* the two entry points run side by side on the same outcomes
    ag,           \* the credential set-up of an agent run
    engV,         \* volumes that exist in the container engine
    engC,         \* test containers in the engine: name -> mounted volume
    relV,         \* release attempts per volume name since its creation
    relC,         \* release attempts per container name since its creation
    stages,       \* stages the current task has completed, in order
    evict,        \* removals of leftovers issued since the last creation
    frames,       \* active invocations of _cleanup, innermost last
    ncmd,         \* commands issued by the innermost/last _cleanup call
    sigs,         \* signals delivered so far
    exitKind      \* how the process ended, "running" while it has not

vars == <<rows, tasks, keep, variant, pc, idx, containers, volumes,
          all_results, result_json, summary, summary_csv, build_log, sup, unz,
          rn, dl, pair, ag, engV, engC, relV, relC, stages, evict, frames, ncmd, sigs, exitKind>>

\* ---------------------------------------------------------------- helpers
Range(s) == {s[i] : i \in 1..Len(s)}

SeqsUpTo(S, n) == UNION {[1..k -> S] : k \in 0..n}

\* ProcessedIds with neither the filters on df nor the skip in the loop
ProcessedIds_Unfiltered(rs) == [i \in 1..Len(rs) |-> RowTaskId(rs[i])]

\* the task ids the loop processes: the rows the two DataFrame filters keep,
\* each printed and stripped, without those the loop itself skips
ProcessedIds(rs) ==
    LET kept == SelectSeq(rs, DfKeep)
        ids == [i \in 1..Len(kept) |-> RowTaskId(kept[i])]
    IN  SelectSeq(ids, LAMBDA t : ~LoopSkip(t))

\* the removals issued since the last creation and how they ended, none
\* issued yet:
\* frv = _force_remove_containers_using_volume, rmv = docker volume rm,
\* rmc = docker rm -f of the test container's name
NoEvict == [frv |-> "none", rmv |-> "none", rmc |-> "none"]

\* an extraction not started
UnzIdle == [ph |-> "idle", readable |-> TRUE, archive |-> <<>>, i |-> 0,
            written |-> {}, status |-> "none"]

\* the functions modelled on their own are not in use
\* no process of a runner call
NoProc == [kind |-> "none", rc |-> 0, out |-> <<>>]

\* no call of the process runner
RnIdle == [ph |-> "idle", fn |-> "none", argv |-> <<>>, check |-> FALSE,
           timed |-> FALSE, log |-> <<>>, seen |-> <<>>, proc |-> NoProc,
           exc |-> "none", msg |-> <<>>, ret |-> <<>>, stdout |-> <<>>]

\* no call of download_from_drive
DlIdle == [ph |-> "idle", url |-> [host |-> TRUE, form |-> "none", idlen |-> 0],
           attempts |-> 0, i |-> 0, size |-> -1, sizes |-> <<>>, outs |-> <<>>,
           errs |-> <<>>, slept |-> <<>>, last_exc |-> "None",
           exc |-> "none", msg |-> "none"]

\* an entry point before its loop: nothing tracked, nothing recorded
CopyInit == [pc |-> "loop", idx |-> 0, containers |-> <<>>, volumes |-> <<>>,
             results |-> <<>>, exit |-> "running"]

\* no side-by-side run
PairIdle == [tasks |-> <<>>, keep |-> FALSE, m |-> CopyInit, s |-> CopyInit,
             steps |-> 0]

\* the five credential variables, in the order of the dict of main
CredentialKeys == <<"OPENAI_API_KEY", "ANTHROPIC_API_KEY", "GOOGLE_API_KEY",
                    "GOOGLE_AI_API_KEY", "GEMINI_API_KEY">>

\* no credential set-up
AgIdle == [ph |-> "idle", host |-> [k \in Range(CredentialKeys) |-> "unset"],
           env_keys |-> <<>>, i |-> 0, env_flags |-> <<>>,
           api_keys_found |-> <<>>, logged |-> <<>>, container |-> {}]

FnIdle ==
    unz = UnzIdle /\ rn = RnIdle /\ dl = DlIdle /\ pair = PairIdle /\ ag = AgIdle

\* the supervisor before the agent process is launched
\* ph: position of the supervisor; now: the clock; start: start_time;
\* first: when the agent emitted its first line (-1: not yet); proc: the
\* agent process; pipe: lines written and not yet read; closed: the agent's
\* end of the pipe is closed; rc: proc.returncode; timeout: timeout_seconds;
\* expired / at: the deadline branch was taken, and when; acts: what the
\* supervisor did to the process
SupIdle == [ph |-> "idle", now |-> 0, start |-> 0, first |-> -1,
            proc |-> "none", pipe |-> 0, closed |-> FALSE, rc |-> 0,
            timeout |-> 0, expired |-> FALSE, at |-> 0, acts |-> <<>>]

\* list.remove(x): drops the first occurrence (the caller checks presence)
RemoveFirst(s, x) ==
    LET i == CHOOSE j \in 1..Len(s) : s[j] = x /\ \A k \in 1..(j-1) : s[k] # x
    IN  SubSeq(s, 1, i-1) \o SubSeq(s, i+1, Len(s))

\* "if x in lst: lst.remove(x)"
RemoveIfPresent(s, x) == IF x \in Range(s) THEN RemoveFirst(s, x) ELSE s

CurTask == tasks[idx]
CurVol == VolumeName(CurTask)
CurCont == ContainerName(CurTask)

ExitCode ==
    CASE exitKind = "ok" -> 0
      [] exitKind = "fatal" -> 1
      [] exitKind = "uncaught_cmd" -> 1
      [] exitKind = "uncaught_read" -> 1
      [] exitKind = "uncaught_reentry" -> 1
      [] exitKind = "interrupted" -> 130
      [] OTHER -> -1

Running == exitKind = "running"

\* containers the engine lists for the filter volume=v
UsersOf(v) == {c \in ContainerNames : engC[c] = v}

\* effect of "docker rm -f c" per outcome
RmContainer(ec, c, out) == IF out = "done" THEN [ec EXCEPT ![c] = NoVol] ELSE ec

\* effect of "docker volume rm v" per outcome: the engine refuses to remove
\* a volume that a container still references
RmVolume(ev, ec, v, out) ==
    IF out = "done" /\ {c \in ContainerNames : ec[c] = v} = {} THEN ev \ {v} ELSE ev

\* ForceRemoveUsers removing nothing
ForceRemoveUsers_Noop(ec, v, out) == ec

\* effect of _force_remove_containers_using_volume(v): every listed container
\* is force-removed; any failure is swallowed and leaves the containers
ForceRemoveUsers(ec, v, out) ==
    IF out = "done" THEN [c \in ContainerNames |-> IF ec[c] = v THEN NoVol ELSE ec[c]]
    ELSE ec

\* a stage of the current task was carried out, and whether it succeeded
Ev(name, ok) == [s |-> name, ok |-> ok]


\* ---------------------------------------------------------- initial state
\* the state of a process that has parsed its arguments and nothing more
\* (the sheet and the flags apart), the engine holding nothing of the run
InitState ==
    /\ tasks = <<>>
    /\ pc = "have_docker"
    /\ idx = 0
    /\ containers = <<>>
    /\ volumes = <<>>
    /\ all_results = <<>>
    /\ result_json = [t \in TaskIds |-> NoResult]
    /\ summary = NoSummary
    /\ summary_csv = NoCsv
    /\ build_log = [t \in TaskIds |-> NoLog]
    /\ sup = SupIdle
    /\ FnIdle
    /\ engV = {}
    /\ engC = [c \in ContainerNames |-> NoVol]
    /\ relV = [v \in VolumeNames |-> 0]
    /\ relC = [c \in ContainerNames |-> 0]
    /\ stages = <<>>
    /\ evict = NoEvict
    /\ frames = <<>>
    /\ ncmd = 0
    /\ sigs = 0
    /\ exitKind = "running"

Init ==
    /\ rows \in SeqsUpTo(TaskIds, MaxTasks)
    /\ keep \in BOOLEAN
    /\ variant = "main"
    /\ InitState

inputVars == <<rows, tasks, keep, variant>>
\* the functions modelled on their own
fnVars == <<unz, rn, dl, pair, ag>>
auxVars == <<build_log, sup, evict, fnVars>>
regVars == <<containers, volumes>>
engVars == <<engV, engC>>
relVars == <<relV, relC>>
resVars == <<all_results, result_json>>
sumVars == <<summary, summary_csv>>
sigVars == <<frames, ncmd, sigs>>

\* the state of the orchestrator proper
orchVars == <<inputVars, pc, idx, regVars, resVars, sumVars, build_log, evict,
              engVars, relVars, stages, sigVars, exitKind>>

\* the main flow runs only while no _cleanup call and no handler is active
AtMain(p) == Running /\ frames = <<>> /\ pc = p

\* RecordResult with the write of result.json left out
RecordResult_NoFile(r) ==
    /\ all_results' = Append(all_results, r)
    /\ UNCHANGED result_json

\* RecordResult putting the new result in front of the earlier ones
RecordResult_Prepend(r) ==
    /\ all_results' = <<r>> \o all_results
    /\ result_json' = [result_json EXCEPT ![r.task_id] = r]

\* all_results.append(result); (task_dir / "result.json").write_text(...)
RecordResult(r) ==
    /\ all_results' = Append(all_results, r)
    /\ result_json' = [result_json EXCEPT ![r.task_id] = r]

\* the result of a task that ended before the tests: run_failed carries no
\* error text, the other three carry str(e)
StageResult(status) ==
    IF status = "run_failed"
    THEN [task_id |-> CurTask, status |-> status]
    ELSE [task_id |-> CurTask, status |-> status, error |-> "str(e)"]

\* result = {...}; all_results.append(result); result.json written
Record(status) == RecordResult(StageResult(status))

\* an exception that nothing catches ends the process with a traceback
Uncaught(kind) ==
    /\ exitKind' = kind
    /\ UNCHANGED <<inputVars, pc, idx, regVars, resVars, sumVars, auxVars, engVars,
                   relVars, stages, sigVars>>

\* ------------------------------------------------------------- start-up
\* if not have_docker(): sys.exit(1)
HaveDocker ==
    /\ AtMain("have_docker")
    /\ \E ok \in BOOLEAN :
         IF ok THEN /\ pc' = "read_sheet"
                    /\ UNCHANGED exitKind
               ELSE /\ exitKind' = "fatal"
                    /\ UNCHANGED pc
    /\ UNCHANGED <<inputVars, idx, regVars, resVars, sumVars, auxVars, engVars, relVars,
                   stages, sigVars>>

\* read_sheet, which raises when neither --sheet nor --csv is given or the
\* source cannot be read; missing columns: sys.exit(1); rows without
\* task_id dropped; BASE_OUT and TEST_LOGS_DIR created
ReadSheet ==
    /\ AtMain("read_sheet")
    /\ \E out \in {"read", "missing", "raise"} :
         CASE out = "raise" -> /\ exitKind' = "uncaught_read"
                               /\ UNCHANGED <<pc, tasks>>
           [] out = "missing" -> /\ exitKind' = "fatal"
                                 /\ UNCHANGED <<pc, tasks>>
           [] OTHER -> /\ pc' = "ensure_swe_image"
                       /\ tasks' = ProcessedIds(rows)
                       /\ UNCHANGED exitKind
    /\ UNCHANGED <<rows, keep, variant, idx, regVars, resVars, sumVars, auxVars,
                   engVars, relVars, stages, sigVars>>

\* ensure_swe_image: inspect; build with check=True when the image is absent
EnsureSweImage ==
    /\ AtMain("ensure_swe_image")
    /\ \E out \in {"present", "built", "build_failed"} :
         IF out = "build_failed"
         THEN Uncaught("uncaught_cmd")
         ELSE /\ pc' = "install"
              /\ UNCHANGED <<inputVars, idx, regVars, resVars, sumVars, auxVars, engVars,
                             relVars, stages, sigVars, exitKind>>

\* signal.signal(SIGINT, _sig_handler); signal.signal(SIGTERM, _sig_handler)
InstallHandlers ==
    /\ AtMain("install")
    /\ pc' = "loop"
    /\ UNCHANGED <<inputVars, idx, regVars, resVars, sumVars, auxVars, engVars, relVars,
                   stages, sigVars, exitKind>>

\* --------------------------------------------------------- per-task steps
\* for i, row in df.iterrows(): ...; task_dir removed if present and recreated
NextTask ==
    /\ AtMain("loop")
    /\ idx < Len(tasks)
    /\ idx' = idx + 1
    /\ result_json' = [result_json EXCEPT ![tasks[idx + 1]] = NoResult]
    /\ build_log' = [build_log EXCEPT ![tasks[idx + 1]] = NoLog]
    /\ stages' = <<>>
    /\ evict' = NoEvict
    /\ pc' = "evict_frv"
    /\ UNCHANGED <<inputVars, regVars, all_results, sumVars, sup, fnVars, engVars, relVars,
                   sigVars, exitKind>>

\* _force_remove_containers_using_volume(volume_name)       (main.py:152)
EvictFrv ==
    /\ AtMain("evict_frv")
    /\ \E out \in {"done", "fail"} :
         /\ engC' = ForceRemoveUsers(engC, CurVol, out)
         /\ evict' = [evict EXCEPT !.frv = out]
    /\ pc' = "evict_rm"
    /\ UNCHANGED <<inputVars, idx, regVars, resVars, sumVars, build_log, sup, fnVars, engV,
                   relVars, stages, sigVars, exitKind>>

\* run_argv(["docker", "volume", "rm", volume_name], check=False)   (:153)
EvictRm ==
    /\ AtMain("evict_rm")
    /\ \E out \in {"done", "fail", "raise"} :
         IF out = "raise"
         THEN Uncaught("uncaught_cmd")
         ELSE /\ engV' = RmVolume(engV, engC, CurVol, out)
              /\ evict' = [evict EXCEPT !.rmv = out]
              /\ pc' = "vol_create"
              /\ UNCHANGED <<inputVars, idx, regVars, resVars, sumVars, build_log,
                             sup, fnVars, engC, relVars, stages, sigVars, exitKind>>

\* run_argv(["docker", "volume", "create", volume_name])            (:154)
VolCreate ==
    /\ AtMain("vol_create")
    /\ \E out \in {"done", "fail"} :
         IF out = "fail"
         THEN Uncaught("uncaught_cmd")
         ELSE /\ engV' = engV \cup {CurVol}
              /\ relV' = [relV EXCEPT ![CurVol] = 0]
              /\ evict' = NoEvict
              /\ pc' = "vol_register"
              /\ UNCHANGED <<inputVars, idx, regVars, resVars, sumVars, build_log,
                             sup, fnVars, engC, relC, stages, sigVars, exitKind>>

\* _volatile["volumes"].append(volume_name)                         (:155)
VolRegister ==
    /\ AtMain("vol_register")
    /\ volumes' = Append(volumes, CurVol)
    /\ stages' = Append(stages, Ev("volume", TRUE))
    /\ pc' = "download"
    /\ UNCHANGED <<inputVars, idx, containers, resVars, sumVars, auxVars, engVars,
                   relVars, sigVars, exitKind>>

\* download_from_drive(dockerfile_url, ...); download_from_drive(git_zip_url, ...)
Download ==
    /\ AtMain("download")
    /\ \E out \in {"done", "fail"} :
         IF out = "done"
         THEN /\ stages' = Append(stages, Ev("download", TRUE))
              /\ pc' = "unzip"
              /\ UNCHANGED resVars
         ELSE /\ Record("download_error")
              /\ stages' = stages \o <<Ev("download", FALSE), Ev("result", TRUE)>>
              /\ pc' = "loop"
    /\ UNCHANGED <<inputVars, idx, regVars, sumVars, auxVars, engVars, relVars, sigVars,
                   exitKind>>

\* Unzip with its except clause recording the status of the download stage
Unzip_DownloadError ==
    /\ AtMain("unzip")
    /\ \E out \in {"done", "fail"} :
         IF out = "done"
         THEN /\ stages' = Append(stages, Ev("unzip", TRUE))
              /\ pc' = "copy"
              /\ UNCHANGED resVars
         ELSE /\ Record("download_error")
              /\ stages' = stages \o <<Ev("unzip", FALSE), Ev("result", TRUE)>>
              /\ pc' = "loop"
    /\ UNCHANGED <<inputVars, idx, regVars, sumVars, auxVars, engVars, relVars, sigVars,
                   exitKind>>

\* unzip_to(git_zip_path, task_dir) and the test that .git exists, in one
\* try: "fail" is any exception of the two (an entry unzip_to rejects, an
\* archive it cannot read, no .git afterwards)
Unzip ==
    /\ AtMain("unzip")
    /\ \E out \in {"done", "fail"} :
         IF out = "done"
         THEN /\ stages' = Append(stages, Ev("unzip", TRUE))
              /\ pc' = "copy"
              /\ UNCHANGED resVars
         ELSE /\ Record("unzip_error")
              /\ stages' = stages \o <<Ev("unzip", FALSE), Ev("result", TRUE)>>
              /\ pc' = "loop"
    /\ UNCHANGED <<inputVars, idx, regVars, sumVars, auxVars, engVars, relVars, sigVars,
                   exitKind>>

\* run_argv(["docker", "run", "--rm", ... busybox ... tar ...])   (:180-186)
CopyToVolume ==
    /\ AtMain("copy")
    /\ \E out \in {"done", "fail"} :
         IF out = "fail"
         THEN /\ exitKind' = "uncaught_cmd"
              /\ stages' = Append(stages, Ev("copy", FALSE))
              /\ UNCHANGED <<inputVars, pc, idx, regVars, resVars, sumVars, auxVars,
                             engVars, relVars, sigVars>>
         ELSE /\ stages' = Append(stages, Ev("copy", TRUE))
              /\ pc' = "stage_ctx"
              /\ UNCHANGED <<inputVars, idx, regVars, resVars, sumVars, auxVars, engVars,
                             relVars, sigVars, exitKind>>

\* AfterFailedStart with the test of args.keep left out
AfterFailedStart_IgnoreKeep(p) == p

\* after a build_failed / run_failed record: the volume is released unless --keep
AfterFailedStart(p) == IF keep THEN "loop" ELSE p

\* staging of the build context inside the try of the build       (:192-199)
StageBuildContext ==
    /\ AtMain("stage_ctx")
    /\ \E out \in {"done", "fail"} :
         IF out = "done"
         THEN /\ pc' = "build"
              /\ UNCHANGED <<resVars, stages>>
         ELSE /\ Record("build_failed")
              /\ stages' = stages \o <<Ev("build", FALSE), Ev("result", TRUE)>>
              /\ pc' = AfterFailedStart("bf_frv")
    /\ UNCHANGED <<inputVars, idx, regVars, sumVars, auxVars, engVars, relVars, sigVars,
                   exitKind>>

\* BuildFailed catching the non-zero exit only
BuildFailed_ExitOnly(out) == out = "fail"

\* "except Exception" around the build: a non-zero exit (RuntimeError from
\* check=True) and an expired deadline (TimeoutExpired) both land there
BuildFailed(out) == out \in {"fail", "timeout"}

\* proc = run_capture_argv(docker build ..., check=True, timeout=...);
\* build_log.write_text(proc.stdout)  -- reached only if the call returns;
\* a non-zero exit (RuntimeError) and a timeout go to the except   (:200-215)
BuildImage ==
    /\ AtMain("build")
    /\ \E out \in {"done", "fail", "timeout"} :
         IF ~BuildFailed(out)
         THEN /\ build_log' = [build_log EXCEPT ![CurTask] = "output"]
              /\ stages' = Append(stages, Ev("build", out = "done"))
              /\ pc' = "rm_stale_c"
              /\ UNCHANGED resVars
         ELSE /\ Record("build_failed")
              /\ stages' = stages \o <<Ev("build", out = "done"), Ev("result", TRUE)>>
              /\ pc' = AfterFailedStart("bf_frv")
              /\ UNCHANGED build_log
    /\ UNCHANGED <<inputVars, idx, regVars, sumVars, sup, fnVars, evict, engVars, relVars,
                   sigVars, exitKind>>

\* _force_remove_containers_using_volume on the build_failed / run_failed path
FailedFrv ==
    /\ \/ AtMain("bf_frv")
       \/ AtMain("rf_frv")
    /\ \E out \in {"done", "fail"} : engC' = ForceRemoveUsers(engC, CurVol, out)
    /\ pc' = IF pc = "bf_frv" THEN "bf_rm" ELSE "rf_rm"
    /\ UNCHANGED <<inputVars, idx, regVars, resVars, sumVars, auxVars, engV, relVars,
                   stages, sigVars, exitKind>>

\* docker volume rm (check=False), then the volume is untracked    (:212-215)
FailedRm ==
    /\ \/ AtMain("bf_rm")
       \/ AtMain("rf_rm")
    /\ \E out \in {"done", "fail", "raise"} :
         IF out = "raise"
         THEN Uncaught("uncaught_cmd")
         ELSE /\ engV' = RmVolume(engV, engC, CurVol, out)
              /\ relV' = [relV EXCEPT ![CurVol] = @ + 1]
              /\ volumes' = RemoveIfPresent(volumes, CurVol)
              /\ pc' = "loop"
              /\ UNCHANGED <<inputVars, idx, containers, resVars, sumVars, auxVars, engC,
                             relC, stages, sigVars, exitKind>>

\* run_argv(["docker", "rm", "-f", container], check=False)         (:219)
RmStaleContainer ==
    /\ AtMain("rm_stale_c")
    /\ \E out \in {"done", "fail", "raise"} :
         IF out = "raise"
         THEN Uncaught("uncaught_cmd")
         ELSE /\ engC' = RmContainer(engC, CurCont, out)
              /\ evict' = [evict EXCEPT !.rmc = out]
              /\ pc' = "run"
              /\ UNCHANGED <<inputVars, idx, regVars, resVars, sumVars, build_log,
                             sup, fnVars, engV, relVars, stages, sigVars, exitKind>>

\* StartFailed with the return code ignored
StartFailed_Never(rc) == FALSE

\* "if rc != 0": whether main treats the start as failed
StartFailed(rc) == rc # 0

\* rc = run_argv(["docker", "run", "-d", "--name", container, ...],
\*               check=False).returncode; the engine refuses a name in use
RunContainer ==
    /\ AtMain("run")
    /\ \E out \in {"done", "fail", "raise"} :
         LET rc == IF out = "done" /\ engC[CurCont] = NoVol THEN 0 ELSE 125
         IN
         CASE out = "raise" -> Uncaught("uncaught_cmd")
           [] out # "raise" /\ ~StartFailed(rc) ->
                /\ engC' = IF rc = 0 THEN [engC EXCEPT ![CurCont] = CurVol] ELSE engC
                /\ relC' = IF rc = 0 THEN [relC EXCEPT ![CurCont] = 0] ELSE relC
                /\ stages' = Append(stages, Ev("run", rc = 0))
                /\ evict' = NoEvict
                /\ pc' = "reg_container"
                /\ UNCHANGED <<inputVars, idx, regVars, resVars, sumVars, build_log,
                               sup, fnVars, engV, relV, sigVars, exitKind>>
           [] OTHER ->
                /\ Record("run_failed")
                /\ stages' = stages \o <<Ev("run", rc = 0), Ev("result", TRUE)>>
                /\ evict' = NoEvict
                /\ pc' = AfterFailedStart("rf_frv")
                /\ UNCHANGED <<inputVars, idx, regVars, sumVars, build_log, sup, fnVars,
                               engVars, relVars, sigVars, exitKind>>

\* _volatile["containers"].append(container)                        (:236)
RegisterContainer ==
    /\ AtMain("reg_container")
    /\ containers' = Append(containers, CurCont)
    /\ pc' = "agent"
    /\ UNCHANGED <<inputVars, idx, volumes, resVars, sumVars, auxVars, engVars, relVars,
                   stages, sigVars, exitKind>>

\* run_swe_agent_in_dedicated_container(...) inside try/except Exception:
\* whatever the agent does, the flow goes on to the tests
\* "hang" is the call that never returns: the supervisor blocked in
\* readline() on an agent that prints nothing and never exits
AgentOutcomes == {"done", "fail", "timeout", "raise", "hang"}

RunAgent ==
    /\ AtMain("agent")
    /\ \E out \in AgentOutcomes :
         IF out = "hang"
           THEN pc' = "agent_blocked" /\ UNCHANGED stages
           ELSE /\ pc' = "tests"
                /\ stages' = Append(stages, Ev("agent", out = "done"))
    /\ UNCHANGED <<inputVars, idx, regVars, resVars, sumVars, auxVars, engVars, relVars,
                   sigVars, exitKind>>

\* exit codes of the test command the model distinguishes
TestExitCodes == {0, 1}

\* an optional exit code: <<rc>>, or <<>> for None / an absent key
Some(rc) == <<rc>>
None == <<>>

\* main.py: the status per way the docker exec ended
TestStatus(out) ==
    CASE out = "done" -> "tests_ran"
      [] out = "timeout" -> "tests_timeout"
      [] OTHER -> "tests_error"

\* SweapTestStatus without the look at the exit code
SweapTestStatus_AlwaysPassed(out, rc) ==
    CASE out = "done" -> "tests_passed"
      [] out = "timeout" -> "tests_timeout"
      [] OTHER -> "tests_error"

\* sweap_salvage_testing_script.py: the status per way it ended
\* status = "tests_passed" if proc.returncode == 0 else "tests_failed"
SweapTestStatus(out, rc) ==
    CASE out = "done" -> IF rc = 0 THEN "tests_passed" ELSE "tests_failed"
      [] out = "timeout" -> "tests_timeout"
      [] OTHER -> "tests_error"

\* the result dictionary of the test stage        (main.py:271-301)
MainTestResult(out, rc) ==
    CASE out = "done" ->
           [task_id |-> CurTask, status |-> TestStatus(out),
            tests_ran_successfully |-> TRUE, tests_exit_code |-> Some(rc)]
      [] out = "timeout" ->
           [task_id |-> CurTask, status |-> TestStatus(out),
            tests_ran_successfully |-> FALSE, tests_exit_code |-> None]
      [] OTHER ->
           [task_id |-> CurTask, status |-> TestStatus(out),
            tests_ran_successfully |-> FALSE, tests_exit_code |-> None,
            error |-> "str(e)"]

\* the same in sweap_salvage_testing_script.py       (:659-672)
SweapTestResult(out, rc) ==
    CASE out = "done" ->
           [task_id |-> CurTask, status |-> SweapTestStatus(out, rc),
            test_exit_code |-> Some(rc)]
      [] out = "timeout" ->
           [task_id |-> CurTask, status |-> SweapTestStatus(out, rc)]
      [] OTHER ->
           [task_id |-> CurTask, status |-> SweapTestStatus(out, rc),
            error |-> "str(e)"]

TestResult(out, rc) ==
    IF variant = "main" THEN MainTestResult(out, rc) ELSE SweapTestResult(out, rc)

\* the event of the test command: how the docker exec ended (completed,
\* TimeoutExpired, another exception) and proc.returncode if it completed
TestEv(out, rc) ==
    [s |-> "tests", ok |-> out = "done", how |-> out,
     rc |-> IF out = "done" THEN Some(rc) ELSE None]

\* run_capture_argv(["docker", "exec", ...], check=False, timeout=...)
RunTests ==
    /\ AtMain("tests")
    /\ \E out \in {"done", "timeout", "raise"}, rc \in TestExitCodes :
         /\ RecordResult(TestResult(out, rc))
         /\ stages' = stages \o <<TestEv(out, rc), Ev("result", TRUE)>>
    /\ pc' = IF keep THEN "loop" ELSE "eot_rm_c"
    /\ UNCHANGED <<inputVars, idx, regVars, sumVars, auxVars, engVars, relVars, sigVars,
                   exitKind>>

\* end-of-task cleanup, first command: docker rm -f container        (:307)
EotRmContainer ==
    /\ AtMain("eot_rm_c")
    /\ \E out \in {"done", "fail", "raise"} :
         IF out = "raise"
         THEN Uncaught("uncaught_cmd")
         ELSE /\ engC' = RmContainer(engC, CurCont, out)
              /\ relC' = [relC EXCEPT ![CurCont] = @ + 1]
              /\ pc' = "eot_frv"
              /\ UNCHANGED <<inputVars, idx, regVars, resVars, sumVars, auxVars, engV,
                             relV, stages, sigVars, exitKind>>

\* _force_remove_containers_using_volume(volume_name)                (:308)
EotFrv ==
    /\ AtMain("eot_frv")
    /\ \E out \in {"done", "fail"} : engC' = ForceRemoveUsers(engC, CurVol, out)
    /\ pc' = "eot_rm_v"
    /\ UNCHANGED <<inputVars, idx, regVars, resVars, sumVars, auxVars, engV, relVars,
                   stages, sigVars, exitKind>>

\* docker volume rm (check=False), then both names are untracked (:309-313)
EotRmVolume ==
    /\ AtMain("eot_rm_v")
    /\ \E out \in {"done", "fail", "raise"} :
         IF out = "raise"
         THEN Uncaught("uncaught_cmd")
         ELSE /\ engV' = RmVolume(engV, engC, CurVol, out)
              /\ relV' = [relV EXCEPT ![CurVol] = @ + 1]
              /\ containers' = RemoveIfPresent(containers, CurCont)
              /\ volumes' = RemoveIfPresent(volumes, CurVol)
              /\ pc' = "loop"
              /\ UNCHANGED <<inputVars, idx, resVars, sumVars, auxVars, engC, relC,
                             stages, sigVars, exitKind>>


\* ------------------------------------------------------------- _cleanup
\* One frame per active call of _cleanup: todoC / todoV are what is left of
\* the snapshots list(_volatile[...]) taken by the two for loops, phase is
\* the statement the call is at ("c": docker rm -f c; "frv":
\* _force_remove_containers_using_volume(v); "rmv": docker volume rm v;
\* "ret": about to return), ret is the caller, and infl tells whether the
\* code this call interrupted (a handler's call) was inside the try of an
\* operation in flight.

\* PhaseOf with the loop over the volumes run first
PhaseOf_VolumesFirst(tc, tv) ==
    IF tv # <<>> THEN "frv" ELSE IF tc # <<>> THEN "c" ELSE "ret"

\* the loop over the containers runs to its end before the loop over the
\* volumes starts
PhaseOf(tc, tv) == IF tc # <<>> THEN "c" ELSE IF tv # <<>> THEN "frv" ELSE "ret"

\* NewFrame with the loop over the volumes left out
NewFrame_NoVolumes(ret, infl) ==
    LET tc == IF keep THEN <<>> ELSE containers
    IN  [ret |-> ret, infl |-> infl, todoC |-> tc, todoV |-> <<>>,
         phase |-> PhaseOf(tc, <<>>)]

\* if args.keep: return -- otherwise the loops run over copies of the lists
NewFrame(ret, infl) ==
    LET tc == IF keep THEN <<>> ELSE containers
        tv == IF keep THEN <<>> ELSE volumes
    IN  [ret |-> ret, infl |-> infl, todoC |-> tc, todoV |-> tv,
         phase |-> PhaseOf(tc, tv)]

Top == frames[Len(frames)]
Below == SubSeq(frames, 1, Len(frames) - 1)

AfterContainer(f) ==
    [f EXCEPT !.todoC = Tail(f.todoC), !.phase = PhaseOf(Tail(f.todoC), f.todoV)]

AfterVolume(f) ==
    [f EXCEPT !.todoV = Tail(f.todoV), !.phase = PhaseOf(<<>>, Tail(f.todoV))]

\* positions of the main flow that are inside a try ... except Exception
\* (of main or of the function being called)
FrvPcs == {"evict_frv", "bf_frv", "rf_frv", "eot_frv"}
TryPcs == FrvPcs \cup {"download", "unzip", "stage_ctx", "build", "agent",
                     "agent_blocked", "tests"}

InstalledPcs == {"loop", "evict_frv", "evict_rm", "vol_create", "vol_register",
                 "download", "unzip", "copy", "stage_ctx", "build", "bf_frv",
                 "bf_rm", "rm_stale_c", "run", "rf_frv", "rf_rm",
                 "reg_container", "agent", "agent_blocked", "tests",
                 "eot_rm_c", "eot_frv",
                 "eot_rm_v", "final_cleanup", "summary"}

\* An exception (SystemExit of sys.exit(130), or the ValueError of
\* list.remove) leaves a handler and unwinds the calls of _cleanup it had
\* interrupted.  In a call that was inside its try: "except Exception: pass"
\* catches a ValueError but not SystemExit, then "finally: ....remove(x)" runs
\* and raises ValueError itself when x is no longer in the list.
\* _force_remove_containers_using_volume swallows an Exception on its own.
\* Result: the frames left (non-empty when a call caught the exception and
\* resumes), the exception still pending for the main flow, and the registry.
RECURSIVE Unwind(_, _, _, _, _, _, _)
Unwind(fs, exc, infl, rc, rv, cc, cv) ==
    IF fs = <<>>
    THEN [frames |-> <<>>, exc |-> exc, infl |-> infl, containers |-> rc,
          volumes |-> rv, relC |-> cc, relV |-> cv]
    ELSE
      LET f == fs[Len(fs)]
          rest == SubSeq(fs, 1, Len(fs) - 1)
      IN
      IF ~infl \/ f.phase = "ret"
      THEN Unwind(rest, exc, f.infl, rc, rv, cc, cv)
      ELSE
        CASE f.phase = "c" ->
               LET c == Head(f.todoC)
                   cc2 == [cc EXCEPT ![c] = @ + 1]
               IN  IF c \in Range(rc)
                   THEN IF exc = "ValueError"
                        THEN [frames |-> Append(rest, AfterContainer(f)),
                              exc |-> "none", infl |-> FALSE,
                              containers |-> RemoveFirst(rc, c), volumes |-> rv,
                              relC |-> cc2, relV |-> cv]
                        ELSE Unwind(rest, exc, f.infl, RemoveFirst(rc, c), rv, cc2, cv)
                   ELSE Unwind(rest, "ValueError", f.infl, rc, rv, cc2, cv)
          [] f.phase = "frv" ->
               LET v == Head(f.todoV)
               IN  IF exc = "ValueError"
                   THEN [frames |-> Append(rest, [f EXCEPT !.phase = "rmv"]),
                         exc |-> "none", infl |-> FALSE, containers |-> rc,
                         volumes |-> rv, relC |-> cc, relV |-> cv]
                   ELSE IF v \in Range(rv)
                        THEN Unwind(rest, exc, f.infl, rc, RemoveFirst(rv, v), cc, cv)
                        ELSE Unwind(rest, "ValueError", f.infl, rc, rv, cc, cv)
          [] OTHER ->
               LET v == Head(f.todoV)
                   cv2 == [cv EXCEPT ![v] = @ + 1]
               IN  IF v \in Range(rv)
                   THEN IF exc = "ValueError"
                        THEN [frames |-> Append(rest, AfterVolume(f)),
                              exc |-> "none", infl |-> FALSE, containers |-> rc,
                              volumes |-> RemoveFirst(rv, v),
                              relC |-> cc, relV |-> cv2]
                        ELSE Unwind(rest, exc, f.infl, rc, RemoveFirst(rv, v), cc, cv2)
                   ELSE Unwind(rest, "ValueError", f.infl, rc, rv, cc, cv2)

\* The main flow receives the exception the handler let out.  SystemExit
\* ends the process with code 130.  A ValueError is an Exception: where the
\* main flow was inside a try it is handled as a failure of that stage,
\* elsewhere it ends the process with a traceback.
MainReceive(exc, infl) ==
    IF exc = "SystemExit"
    THEN /\ exitKind' = "interrupted"
         /\ UNCHANGED <<pc, resVars, stages, engC>>
    ELSE IF ~(infl /\ pc \in TryPcs)
    THEN /\ exitKind' = "uncaught_reentry"
         /\ UNCHANGED <<pc, resVars, stages, engC>>
    ELSE
      /\ UNCHANGED exitKind
      /\ CASE pc \in FrvPcs ->
                /\ \E out \in {"done", "fail"} :
                       engC' = ForceRemoveUsers(engC, CurVol, out)
                /\ pc' = CASE pc = "evict_frv" -> "evict_rm"
                           [] pc = "bf_frv" -> "bf_rm"
                           [] pc = "rf_frv" -> "rf_rm"
                           [] OTHER -> "eot_rm_v"
                /\ UNCHANGED <<resVars, stages>>
           [] pc = "download" ->
                \* caught by the retry loop of download_from_drive, which
                \* tries again or gives up
                /\ \/ /\ Record("download_error")
                      /\ stages' = stages \o <<Ev("download", FALSE), Ev("result", TRUE)>>
                      /\ pc' = "loop"
                   \/ UNCHANGED <<pc, resVars, stages>>
                /\ UNCHANGED engC
           [] pc = "unzip" ->
                /\ Record("unzip_error")
                /\ stages' = stages \o <<Ev("unzip", FALSE), Ev("result", TRUE)>>
                /\ pc' = "loop"
                /\ UNCHANGED engC
           [] pc \in {"stage_ctx", "build"} ->
                /\ Record("build_failed")
                /\ stages' = stages \o <<Ev("build", FALSE), Ev("result", TRUE)>>
                /\ pc' = AfterFailedStart("bf_frv")
                /\ UNCHANGED engC
           [] pc \in {"agent", "agent_blocked"} ->
                /\ stages' = Append(stages, Ev("agent", FALSE))
                /\ pc' = "tests"
                /\ UNCHANGED <<resVars, engC>>
           [] OTHER ->
                /\ RecordResult(TestResult("raise", 0))
                /\ stages' = stages \o <<TestEv("raise", 0), Ev("result", TRUE)>>
                /\ pc' = IF keep THEN "loop" ELSE "eot_rm_c"
                /\ UNCHANGED engC

\* an exception leaves the innermost call of _cleanup
Propagate(exc) ==
    LET u == Unwind(Below, exc, Top.infl, containers, volumes, relC, relV)
    IN  /\ containers' = u.containers
        /\ volumes' = u.volumes
        /\ relC' = u.relC
        /\ relV' = u.relV
        /\ frames' = u.frames
        /\ IF u.exc = "none"
           THEN UNCHANGED <<pc, exitKind, resVars, stages, engC>>
           ELSE MainReceive(u.exc, u.infl)

InCleanup(ph) == Running /\ frames # <<>> /\ Top.phase = ph

\* UntrackAfter with the remove in the try body instead of the finally
UntrackAfter_OnlyOnSuccess(lst, x, out) ==
    IF out = "raise" THEN lst ELSE RemoveFirst(lst, x)

\* UntrackAfter dropping every occurrence of the name
UntrackAfter_All(lst, x, out) == SelectSeq(lst, LAMBDA y : y # x)

\* what "finally: _volatile[...].remove(x)" leaves of the list, whatever the
\* outcome of the removal command was
UntrackAfter(lst, x, out) == RemoveFirst(lst, x)

\* for c in list(_volatile["containers"]): try: docker rm -f c
\* except Exception: pass  finally: _volatile["containers"].remove(c)
CleanupRmContainer ==
    /\ InCleanup("c")
    /\ \E out \in {"done", "fail", "raise"} :
         LET c == Head(Top.todoC)
         IN  /\ ncmd' = ncmd + 1
             /\ IF c \in Range(containers)
                THEN /\ engC' = RmContainer(engC, c, out)
                     /\ relC' = [relC EXCEPT ![c] = @ + 1]
                     /\ containers' = UntrackAfter(containers, c, out)
                     /\ frames' = Append(Below, AfterContainer(Top))
                     /\ UNCHANGED <<volumes, relV, pc, exitKind, resVars, stages>>
                ELSE Propagate("ValueError")
    /\ UNCHANGED <<inputVars, idx, sumVars, auxVars, engV, sigs>>

\* for v in list(_volatile["volumes"]): try:
\*     _force_remove_containers_using_volume(v)
CleanupFrv ==
    /\ InCleanup("frv")
    /\ \E out \in {"done", "fail"} :
         engC' = ForceRemoveUsers(engC, Head(Top.todoV), out)
    /\ frames' = Append(Below, [Top EXCEPT !.phase = "rmv"])
    /\ ncmd' = ncmd + 1
    /\ UNCHANGED <<inputVars, pc, idx, regVars, resVars, sumVars, auxVars, engV, relVars,
                   stages, sigs, exitKind>>

\*     run_argv(["docker", "volume", "rm", v], check=False)
\* except Exception: pass  finally: _volatile["volumes"].remove(v)
CleanupRmVolume ==
    /\ InCleanup("rmv")
    /\ \E out \in {"done", "fail", "raise"} :
         LET v == Head(Top.todoV)
         IN  /\ ncmd' = ncmd + 1
             /\ engV' = RmVolume(engV, engC, v, out)
             /\ IF v \in Range(volumes)
                THEN /\ relV' = [relV EXCEPT ![v] = @ + 1]
                     /\ volumes' = UntrackAfter(volumes, v, out)
                     /\ frames' = Append(Below, AfterVolume(Top))
                     /\ UNCHANGED <<containers, relC, pc, exitKind, resVars,
                                    stages, engC>>
                ELSE Propagate("ValueError")
    /\ UNCHANGED <<inputVars, idx, sumVars, auxVars, sigs>>

\* where a call of _cleanup that was not made by the handler returns to
RetPc(ret) ==
    CASE ret = "main" -> "summary"
      [] ret = "call1" -> "call2"
      [] OTHER -> "called_twice"

\* _cleanup returns to its caller
CleanupReturn ==
    /\ InCleanup("ret")
    /\ Top.ret # "sig"
    /\ frames' = Below
    /\ pc' = RetPc(Top.ret)
    /\ UNCHANGED <<inputVars, idx, regVars, resVars, sumVars, auxVars, engVars, relVars,
                   stages, ncmd, sigs, exitKind>>

\* the two calls in succession that the idempotence of _cleanup is about
CallCleanup ==
    /\ \/ AtMain("call1")
       \/ AtMain("call2")
    /\ frames' = <<NewFrame(pc, FALSE)>>
    /\ ncmd' = 0
    /\ UNCHANGED <<inputVars, pc, idx, regVars, resVars, sumVars, auxVars, engVars,
                   relVars, stages, sigs, exitKind>>

\* _sig_handler after its _cleanup() returned: sys.exit(130)
HandlerExit ==
    /\ InCleanup("ret")
    /\ Top.ret = "sig"
    /\ Propagate("SystemExit")
    /\ UNCHANGED <<inputVars, idx, sumVars, auxVars, engV, ncmd, sigs>>

\* whether the code at the current position is inside a try
InTry == IF frames = <<>> THEN pc \in TryPcs ELSE Top.phase \in {"c", "frv", "rmv"}

\* SIGINT / SIGTERM: _sig_handler starts and calls _cleanup()
Signal ==
    /\ Running
    /\ pc \in InstalledPcs
    /\ sigs < MaxSignals
    /\ sigs' = sigs + 1
    /\ \E infl \in BOOLEAN :
         /\ infl => InTry
         /\ (frames = <<>> /\ pc = "agent_blocked") => infl
         /\ frames' = Append(frames, NewFrame("sig", infl))
    /\ ncmd' = 0
    /\ UNCHANGED <<inputVars, pc, idx, regVars, resVars, sumVars, auxVars, engVars,
                   relVars, stages, exitKind>>

\* --------------------------------------------------------------- run end
EndOfTasks ==
    /\ AtMain("loop")
    /\ idx = Len(tasks)
    /\ pc' = "final_cleanup"
    /\ UNCHANGED <<inputVars, idx, regVars, resVars, sumVars, auxVars, engVars, relVars,
                   stages, sigVars, exitKind>>

\* _cleanup()                                                (main.py:315)
FinalCleanup ==
    /\ AtMain("final_cleanup")
    /\ frames' = <<NewFrame("main", FALSE)>>
    /\ ncmd' = 0
    /\ UNCHANGED <<inputVars, pc, idx, regVars, resVars, sumVars, auxVars, engVars,
                   relVars, stages, sigs, exitKind>>

\* the keys that occur in result records, in sorted order
KeyOrder == <<"error", "status", "task_id", "test_exit_code", "tests_exit_code",
              "tests_ran_successfully">>

\* fieldnames taken from the first record only
Fieldnames_FirstRecord(results) ==
    SelectSeq(KeyOrder, LAMBDA k : k \in DOMAIN results[1])

\* sorted({k for r in all_results for k in r.keys()})
Fieldnames(results) ==
    SelectSeq(KeyOrder,
              LAMBDA k : \E i \in 1..Len(results) : k \in DOMAIN results[i])

\* str() of an exit code
IntStr(n) == CASE n = 0 -> "0" [] n = 1 -> "1"

\* the cell DictWriter writes for key k of record r: "" for an absent key
\* (restval) and for None, str() of the value otherwise
CsvCell(r, k) ==
    IF k \notin DOMAIN r THEN ""
    ELSE CASE k = "tests_ran_successfully" -> IF r[k] THEN "True" ELSE "False"
           [] k \in {"tests_exit_code", "test_exit_code"} ->
                IF r[k] = None THEN "" ELSE IntStr(r[k][1])
           [] OTHER -> r[k]

\* with summary_csv.open("w") as f: if all_results: writeheader; writerows
WriteCsv(results) ==
    IF results = <<>>
    THEN [written |-> TRUE, header |-> <<>>, rows |-> <<>>]
    ELSE LET h == Fieldnames(results)
         IN  [written |-> TRUE, header |-> h,
              rows |-> [i \in 1..Len(results) |->
                          [j \in 1..Len(h) |-> CsvCell(results[i], h[j])]]]

\* summary.json and summary.csv written from all_results; main returns
WriteSummary ==
    /\ AtMain("summary")
    /\ summary' = all_results
    /\ summary_csv' = WriteCsv(all_results)
    /\ UNCHANGED auxVars
    /\ pc' = "done"
    /\ exitKind' = "ok"
    /\ UNCHANGED <<inputVars, idx, regVars, resVars, engVars, relVars, stages,
                   sigVars>>


\* ------------------------------------------------------ agent supervisor
\* run_swe_agent_in_dedicated_container from Popen on, as a function of its
\* own: the supervisor thread, the agent process and the clock.
supOther == <<orchVars, fnVars>>

Timeouts == 0..MaxTimeout
AgentExitCodes == {0, 1}

SupAt(p) == pc = "sup" /\ sup.ph = p

\* the agent process is running (proc.poll() is None)
Alive == sup.proc = "alive"

\* proc = subprocess.Popen(...); with log_path.open("w"); start_time =
\* time.time() -- or Popen / open raises and the function is left
SupLaunch ==
    /\ SupAt("idle")
    /\ \E ok \in BOOLEAN :
         sup' = IF ok
                THEN [sup EXCEPT !.ph = "read", !.proc = "alive",
                                 !.start = sup.now]
                ELSE [sup EXCEPT !.ph = "raised"]
    /\ UNCHANGED supOther

\* a second passes; it is counted up to MaxTime
Tick ==
    /\ pc = "sup"
    /\ sup.ph \in {"idle", "read"}
    /\ sup.now < MaxTime
    /\ sup' = [sup EXCEPT !.now = @ + 1]
    /\ UNCHANGED supOther

\* the agent writes a line to its output
AgentEmit ==
    /\ pc = "sup"
    /\ Alive /\ ~sup.closed
    /\ sup.pipe < MaxPipe
    /\ sup' = [sup EXCEPT !.pipe = @ + 1,
                          !.first = IF @ = -1 THEN sup.now ELSE @]
    /\ UNCHANGED supOther

\* the agent closes its output and goes on running
AgentCloseOutput ==
    /\ pc = "sup"
    /\ Alive /\ ~sup.closed
    /\ sup' = [sup EXCEPT !.closed = TRUE]
    /\ UNCHANGED supOther

\* the agent exits on its own (its output is closed with it)
AgentExit ==
    /\ pc = "sup"
    /\ Alive
    /\ \E rc \in AgentExitCodes :
         sup' = [sup EXCEPT !.proc = "exited", !.closed = TRUE, !.rc = rc]
    /\ UNCHANGED supOther

\* if timeout_seconds > 0 and elapsed > timeout_seconds
DeadlinePassed(elapsed) == sup.timeout > 0 /\ elapsed > sup.timeout

\* one turn of "for line in iter(proc.stdout.readline, '')": readline
\* returns a line, elapsed is computed, the line is logged, and past the
\* deadline the process is sent terminate()
SupReadLine ==
    /\ SupAt("read")
    /\ sup.pipe > 0
    /\ LET elapsed == sup.now - sup.start
       IN  sup' = IF DeadlinePassed(elapsed)
                  THEN [sup EXCEPT !.pipe = @ - 1, !.ph = "grace",
                                   !.expired = TRUE, !.at = sup.now,
                                   !.acts = Append(@, "terminate")]
                  ELSE [sup EXCEPT !.pipe = @ - 1]
    /\ UNCHANGED supOther

\* readline returns "": nothing left to read and the output is closed
SupEof ==
    /\ SupAt("read")
    /\ sup.pipe = 0 /\ sup.closed
    /\ sup' = [sup EXCEPT !.ph = "finally"]
    /\ UNCHANGED supOther

\* readline, print or lf.write raises: except Exception logs it
SupReadError ==
    /\ SupAt("read")
    /\ sup.pipe > 0
    /\ sup' = [sup EXCEPT !.pipe = @ - 1, !.ph = "finally"]
    /\ UNCHANGED supOther

\* time.sleep(5); if proc.poll() is None: proc.kill(); break -- the process
\* may have exited on the terminate during the sleep
SupGrace ==
    /\ SupAt("grace")
    /\ \E gone \in BOOLEAN :
         /\ gone => Alive
         /\ sup' = IF ~Alive
                   THEN [sup EXCEPT !.ph = "finally", !.now = @ + GraceSeconds,
                                    !.acts = Append(@, "sleep")]
                   ELSE IF gone
                   THEN [sup EXCEPT !.ph = "finally", !.now = @ + GraceSeconds,
                                    !.proc = "exited", !.closed = TRUE,
                                    !.rc = -15,
                                    !.acts = Append(@, "sleep")]
                   ELSE [sup EXCEPT !.ph = "finally", !.now = @ + GraceSeconds,
                                    !.proc = "exited", !.closed = TRUE,
                                    !.rc = -9,
                                    !.acts = @ \o <<"sleep", "kill">>]
    /\ UNCHANGED supOther

\* finally: if proc.poll() is None: terminate(); wait(timeout=10), and on
\* TimeoutExpired kill(); wait() -- then the exit code is logged and the
\* function returns
SupFinally ==
    /\ SupAt("finally")
    /\ \E gone \in BOOLEAN :
         /\ gone => Alive
         /\ sup' = IF ~Alive
                   THEN [sup EXCEPT !.ph = "returned"]
                   ELSE IF gone
                   THEN [sup EXCEPT !.ph = "returned", !.proc = "exited",
                                    !.closed = TRUE, !.rc = -15,
                                    !.acts = @ \o <<"terminate", "wait">>]
                   ELSE [sup EXCEPT !.ph = "returned", !.proc = "exited",
                                    !.closed = TRUE, !.rc = -9,
                                    !.now = @ + WaitSeconds,
                                    !.acts = @ \o <<"terminate", "wait", "kill">>]
    /\ UNCHANGED supOther

SupStep == SupLaunch \/ SupReadLine \/ SupEof \/ SupGrace \/ SupFinally

InitAgent ==
    /\ rows = <<>>
    /\ tasks = <<>>
    /\ keep = FALSE
    /\ variant \in Variants
    /\ pc = "sup"
    /\ idx = 0
    /\ containers = <<>>
    /\ volumes = <<>>
    /\ all_results = <<>>
    /\ result_json = [t \in TaskIds |-> NoResult]
    /\ summary = NoSummary
    /\ summary_csv = NoCsv
    /\ build_log = [t \in TaskIds |-> NoLog]
    /\ sup \in {[SupIdle EXCEPT !.timeout = t] : t \in Timeouts}
    /\ FnIdle
    /\ engV = {}
    /\ engC = [c \in ContainerNames |-> NoVol]
    /\ relV = [v \in VolumeNames |-> 0]
    /\ relC = [c \in ContainerNames |-> 0]
    /\ stages = <<>>
    /\ evict = NoEvict
    /\ frames = <<>>
    /\ ncmd = 0
    /\ sigs = 0
    /\ exitKind = "running"

NextAgent ==
    \/ SupLaunch
    \/ Tick
    \/ AgentEmit
    \/ AgentCloseOutput
    \/ AgentExit
    \/ SupReadLine
    \/ SupEof
    \/ SupReadError
    \/ SupGrace
    \/ SupFinally

SpecAgent == InitAgent /\ [][NextAgent]_vars

\* The supervisor thread runs: a statement that can be executed is executed.
\* Nothing is assumed of the agent, nor of errors.
SpecAgentFair == SpecAgent /\ WF_vars(SupStep)


\* ----------------------------------------------- functions on their own
\* the orchestrator's state while a function is looked at on its own
OrchIdle(p) ==
    /\ rows = <<>>
    /\ tasks = <<>>
    /\ keep = FALSE
    /\ variant \in Variants
    /\ pc = p
    /\ idx = 0
    /\ containers = <<>>
    /\ volumes = <<>>
    /\ all_results = <<>>
    /\ result_json = [t \in TaskIds |-> NoResult]
    /\ summary = NoSummary
    /\ summary_csv = NoCsv
    /\ build_log = [t \in TaskIds |-> NoLog]
    /\ engV = {}
    /\ engC = [c \in ContainerNames |-> NoVol]
    /\ relV = [v \in VolumeNames |-> 0]
    /\ relC = [c \in ContainerNames |-> 0]
    /\ stages = <<>>
    /\ evict = NoEvict
    /\ frames = <<>>
    /\ ncmd = 0
    /\ sigs = 0
    /\ exitKind = "running"

\* ------------------------------------------------------------- unzip_to
\* unzip_to(git_zip_path, task_dir) followed by the .git test of main, with
\* the except clause that records unzip_error.  A path is the sequence of
\* its components from the root; dest_dir is /t.
DestDir == <<"t">>

Components == {"..", ".git", "t"}

\* member.filename: absolute or relative, up to MaxDepth components
Filenames ==
    [abs : BOOLEAN, comps : UNION {[1..n -> Components] : n \in 1..MaxDepth}]

\* base / name (pathlib): an absolute name replaces the base
Join(base, f) == IF f.abs THEN f.comps ELSE base \o f.comps

\* Path.resolve() of a path without symbolic links: ".." drops the
\* component before it, and the root is its own parent
RECURSIVE Resolve(_)
Resolve(path) ==
    IF path = <<>> THEN <<>>
    ELSE LET front == Resolve(SubSeq(path, 1, Len(path) - 1))
             last == path[Len(path)]
         IN  IF last = ".."
             THEN IF front = <<>> THEN <<>> ELSE SubSeq(front, 1, Len(front) - 1)
             ELSE Append(front, last)

IsPrefix(a, b) == Len(a) <= Len(b) /\ SubSeq(b, 1, Len(a)) = a

\* _is_within_directory accepting every target
IsWithinDirectory_Always(base, target) == TRUE

\* _is_within_directory: target.resolve().relative_to(base.resolve())
IsWithinDirectory(base, target) == IsPrefix(Resolve(base), Resolve(target))

\* where ZipFile.extractall puts a member: the ".." components (and a
\* leading "/") are dropped from its name, the rest is joined to the target
ExtractPath(dest, f) == dest \o SelectSeq(f.comps, LAMBDA c : c # "..")

unzOther == <<orchVars, sup, rn, dl, pair, ag>>

UnzAt(p) == pc = "unzip_to" /\ unz.ph = p

\* zipfile.ZipFile(zip_path, "r"): BadZipFile for a file that is no archive
UnzOpen ==
    /\ UnzAt("idle")
    /\ unz' = IF unz.readable
              THEN [unz EXCEPT !.ph = "validate", !.i = 1]
              ELSE [unz EXCEPT !.ph = "except"]
    /\ UNCHANGED unzOther

\* one turn of "for member in zf.infolist()": the member is tested and a
\* member outside dest_dir raises RuntimeError; after the last one the
\* loop is left
UnzValidate ==
    /\ UnzAt("validate")
    /\ unz' = IF unz.i > Len(unz.archive)
              THEN [unz EXCEPT !.ph = "extract", !.i = 1]
              ELSE IF IsWithinDirectory(DestDir, Join(DestDir, unz.archive[unz.i]))
              THEN [unz EXCEPT !.i = @ + 1]
              ELSE [unz EXCEPT !.ph = "except"]
    /\ UNCHANGED unzOther

\* zf.extractall(dest_dir), member by member; writing a member may fail
UnzExtract ==
    /\ UnzAt("extract")
    /\ \E ok \in BOOLEAN :
         unz' = IF unz.i > Len(unz.archive)
                THEN [unz EXCEPT !.ph = "git_test"]
                ELSE IF ok
                THEN [unz EXCEPT !.i = @ + 1,
                        !.written = @ \cup {ExtractPath(DestDir, unz.archive[unz.i])}]
                ELSE [unz EXCEPT !.ph = "except"]
    /\ UNCHANGED unzOther

\* if not (task_dir / ".git").exists(): raise RuntimeError(...)
UnzGitTest ==
    /\ UnzAt("git_test")
    /\ unz' = IF \E w \in unz.written : IsPrefix(DestDir \o <<".git">>, w)
              THEN [unz EXCEPT !.ph = "end", !.status = "extracted"]
              ELSE [unz EXCEPT !.ph = "except"]
    /\ UNCHANGED unzOther

\* except Exception as e: the result with status unzip_error; continue
UnzExcept ==
    /\ UnzAt("except")
    /\ unz' = [unz EXCEPT !.ph = "end", !.status = "unzip_error"]
    /\ UNCHANGED unzOther

InitUnzip ==
    /\ rn = RnIdle /\ dl = DlIdle /\ pair = PairIdle /\ ag = AgIdle
    /\ OrchIdle("unzip_to")
    /\ sup = SupIdle
    /\ \E rd \in BOOLEAN, ar \in SeqsUpTo(Filenames, MaxEntries) :
         unz = [UnzIdle EXCEPT !.readable = rd, !.archive = ar]

NextUnzip ==
    \/ UnzOpen
    \/ UnzValidate
    \/ UnzExtract
    \/ UnzGitTest
    \/ UnzExcept

SpecUnzip == InitUnzip /\ [][NextUnzip]_vars

\* ------------------------------------------------------- process runner
\* utils/command.py (run_argv, run_capture_argv, have_docker) and the
\* launch of the runner container in swe/agent.py, one call at a time.
\* An argument is a sequence of characters, each written by its name: "SP"
\* a space, "SQ" a single quote, "DQ" a double quote, "DOLLAR", "BACKTICK",
\* "BACKSLASH", and "d" for any character that needs no quoting.
MaxArgLen == 1
MaxArgs == 2
MaxChunks == 2

rnOther == <<orchVars, sup, unz, dl, pair, ag>>

Chars == {"d", "SP", "SQ"}
ArgStrings == UNION {[1..n -> Chars] : n \in 0..MaxArgLen}
Argvs == UNION {[1..n -> ArgStrings] : n \in 1..MaxArgs}

\* the characters re.search finds: whitespace, quotes, $, backtick, backslash
ShellSpecial == {"SP", "SQ", "DQ", "DOLLAR", "BACKTICK", "BACKSLASH"}

\* s.replace: each single quote becomes SQ DQ SQ DQ SQ
RECURSIVE ReplaceQuotes(_)
ReplaceQuotes(a) ==
    IF a = <<>> THEN <<>>
    ELSE (IF Head(a) = "SQ" THEN <<"SQ", "DQ", "SQ", "DQ", "SQ">> ELSE <<Head(a)>>)
         \o ReplaceQuotes(Tail(a))

\* _shell_quote
ShellQuote(a) ==
    IF a = <<>> \/ \E k \in 1..Len(a) : a[k] \in ShellSpecial
    THEN <<"SQ">> \o ReplaceQuotes(a) \o <<"SQ">>
    ELSE a

\* " ".join(...)
RECURSIVE JoinSpace(_)
JoinSpace(parts) ==
    IF parts = <<>> THEN <<>>
    ELSE IF Len(parts) = 1 THEN parts[1]
    ELSE parts[1] \o <<"SP">> \o JoinSpace(Tail(parts))

\* quoted = " ".join(_shell_quote(x) for x in argv)
Quoted(argv) == JoinSpace([k \in 1..Len(argv) |-> ShellQuote(argv[k])])

\* the line of log(f"$ {quoted}")
CommandLine(argv) == <<"DOLLAR", "SP">> \o Quoted(argv)

\* the line of log("Starting SWE-agent runner container...")
StartingLine == <<"S", "t", "a", "r", "t", "i", "n", "g">>

\* ["docker", "--version"]
DockerVersion == << <<"d">>, <<"d", "d">> >>

RunFns == {"run_argv", "run_capture_argv"}
ReturnCodes == {0, 1}

\* what a child process writes: chunks on stdout and stderr, in order
Outputs == UNION {[1..n -> {"out", "err"}] : n \in 0..MaxChunks}

\* stdout=PIPE, stderr=STDOUT: both streams, in the order written
Captured(out) == SelectSeq(out, LAMBDA c : c \in {"out", "err"})

\* check=True taken as given
Raises_Always(check, rc) == rc # 0

\* if check and proc.returncode != 0
Raises(check, rc) == check /\ rc # 0

\* Python's classes of the exceptions that occur, with their bases
Bases(exc) ==
    CASE exc = "RuntimeError" -> {"RuntimeError", "Exception"}
      [] exc = "TimeoutExpired" -> {"TimeoutExpired", "SubprocessError", "Exception"}
      [] exc = "OSError" -> {"OSError", "Exception"}
      [] OTHER -> {}

RnAt(p) == pc = "command" /\ rn.ph = p

\* quoted = ...; log(f"$ {quoted}")
RnLog ==
    /\ RnAt("call") /\ rn.fn \in RunFns
    /\ rn' = [rn EXCEPT !.ph = "run", !.log = Append(@, CommandLine(rn.argv))]
    /\ UNCHANGED rnOther

\* proc = subprocess.run(argv, ..., timeout=timeout): the command cannot be
\* started (OSError), runs past the timeout (the child is killed,
\* TimeoutExpired), or ends with an exit code
RnRun ==
    /\ RnAt("run") /\ rn.fn \in RunFns
    /\ \E kind \in {"exit", "timeout", "oserror"}, rc \in ReturnCodes, out \in Outputs :
         /\ kind = "timeout" => rn.timed
         /\ kind # "exit" => rc = 0
         /\ kind = "oserror" => out = <<>>
         /\ rn' = [rn EXCEPT
                     !.seen = <<rn.log>>,
                     !.proc = [kind |-> kind, rc |-> rc, out |-> out],
                     !.ph = IF kind = "exit" THEN "check" ELSE "raised",
                     !.exc = CASE kind = "timeout" -> "TimeoutExpired"
                               [] kind = "oserror" -> "OSError"
                               [] OTHER -> "none"]
    /\ UNCHANGED rnOther

\* if check and proc.returncode != 0: raise RuntimeError(...); return proc
RnCheck ==
    /\ RnAt("check")
    /\ LET cap == IF rn.fn = "run_capture_argv"
                  THEN <<Captured(rn.proc.out)>> ELSE <<>>
       IN  rn' = IF Raises(rn.check, rn.proc.rc)
                 THEN [rn EXCEPT !.ph = "raised", !.exc = "RuntimeError",
                                 !.msg = <<[rc |-> rn.proc.rc,
                                            cmd |-> Quoted(rn.argv),
                                            out |-> cap]>>]
                 ELSE [rn EXCEPT !.ph = "returned", !.ret = <<rn.proc.rc>>,
                                 !.stdout = cap]
    /\ UNCHANGED rnOther

\* have_docker: subprocess.run(["docker", "--version"], check=True, ...) in
\* try / except Exception -> True or False
HaveDockerCall ==
    /\ RnAt("call") /\ rn.fn = "have_docker"
    /\ \E kind \in {"exit", "oserror"}, rc \in ReturnCodes :
         /\ kind # "exit" => rc = 0
         /\ rn' = [rn EXCEPT
                     !.seen = <<rn.log>>,
                     !.proc = [kind |-> kind, rc |-> rc, out |-> <<>>],
                     !.ph = "returned",
                     !.ret = <<IF kind = "exit" /\ rc = 0 THEN 1 ELSE 0>>]
    /\ UNCHANGED rnOther

\* log("Starting SWE-agent runner container...")
AgentLaunchLog ==
    /\ RnAt("call") /\ rn.fn = "popen"
    /\ rn' = [rn EXCEPT !.ph = "run", !.log = Append(@, StartingLine)]
    /\ UNCHANGED rnOther

\* proc = subprocess.Popen(cmd, ...)
AgentPopen ==
    /\ RnAt("run") /\ rn.fn = "popen"
    /\ \E kind \in {"spawned", "oserror"} :
         rn' = [rn EXCEPT
                  !.seen = <<rn.log>>,
                  !.proc = [kind |-> kind, rc |-> 0, out |-> <<>>],
                  !.ph = IF kind = "spawned" THEN "returned" ELSE "raised",
                  !.exc = IF kind = "spawned" THEN "none" ELSE "OSError"]
    /\ UNCHANGED rnOther

InitCommand ==
    /\ OrchIdle("command")
    /\ sup = SupIdle /\ unz = UnzIdle /\ dl = DlIdle /\ pair = PairIdle /\ ag = AgIdle
    /\ \/ \E fn \in RunFns, argv \in Argvs, check \in BOOLEAN, timed \in BOOLEAN :
            rn = [RnIdle EXCEPT !.ph = "call", !.fn = fn, !.argv = argv,
                                !.check = check, !.timed = timed]
       \/ rn = [RnIdle EXCEPT !.ph = "call", !.fn = "have_docker",
                              !.argv = DockerVersion, !.check = TRUE]
       \/ \E argv \in Argvs :
            rn = [RnIdle EXCEPT !.ph = "call", !.fn = "popen", !.argv = argv]

NextCommand ==
    \/ RnLog
    \/ RnRun
    \/ RnCheck
    \/ HaveDockerCall
    \/ AgentLaunchLog
    \/ AgentPopen

SpecCommand == InitCommand /\ [][NextCommand]_vars

\* ------------------------------------------------------------- download
\* utils/drive.py: drive_id_from_url and download_from_drive, one call.
\* A URL is given by what the parser looks at: whether it holds
\* "drive.google.com", which of the id forms it has, and how many id
\* characters follow. Waits are in tenths of a second.
MinIdLen == 10
DefaultAttempts == 4
MaxExtraId == 1

dlOther == <<orchVars, sup, unz, rn, pair, ag>>

UrlForms == {"file_d", "query_id", "uc_id", "none"}
Urls == [host : BOOLEAN, form : UrlForms,
         idlen : (MinIdLen - 1)..(MinIdLen + MaxExtraId - 1)]

\* the patterns, in order: /file/d/<id>, [?&]id=<id>, /uc\?id=<id>, each
\* with an id of at least ten characters; "/uc?id=" also matches the second
PatternMatches(pat, u) ==
    /\ u.idlen >= MinIdLen
    /\ CASE pat = 1 -> u.form = "file_d"
         [] pat = 2 -> u.form \in {"query_id", "uc_id"}
         [] pat = 3 -> u.form = "uc_id"

\* drive_id_from_url returns an id (TRUE) or raises ValueError (FALSE)
DriveIdFromUrl(u) == u.host /\ \E pat \in 1..3 : PatternMatches(pat, u)

\* random.random(), in tenths
Jitters == {0, 5, 9}

RECURSIVE Pow2(_)
Pow2(n) == IF n = 0 THEN 1 ELSE 2 * Pow2(n - 1)

\* what gdown.download does: raises, returns leaving no file, writes an
\* empty file, writes the file
GdownOutcomes == {"ConnectionError", "FileURLRetrievalError", "nofile", "empty", "file"}

\* the file at out_path after gdown.download (-1: absent, 0: empty)
SizeAfter(size, out) ==
    CASE out = "file" -> 1
      [] out = "empty" -> 0
      [] OTHER -> size

\* the break left out
LastAttempt_Never(i, attempts) == FALSE

\* if i == attempts: break
LastAttempt(i, attempts) == i = attempts

DlAt(p) == pc = "download_from_drive" /\ dl.ph = p

\* file_id = drive_id_from_url(url); out_path.parent.mkdir(...)
DlParse ==
    /\ DlAt("call")
    /\ dl' = IF DriveIdFromUrl(dl.url)
             THEN [dl EXCEPT !.ph = "loop", !.i = 1]
             ELSE [dl EXCEPT !.ph = "raised", !.exc = "ValueError"]
    /\ UNCHANGED dlOther

\* one turn of the try: gdown.download, then return if the file exists and
\* is not empty, else raise RuntimeError("Zero-sized download")
DlAttempt ==
    /\ DlAt("loop") /\ dl.i <= dl.attempts
    /\ \E out \in GdownOutcomes :
         LET sz == SizeAfter(dl.size, out)
             raised == out \in {"ConnectionError", "FileURLRetrievalError"}
         IN  dl' = [dl EXCEPT
                      !.size = sz,
                      !.sizes = Append(@, sz),
                      !.outs = Append(@, out),
                      !.errs = Append(@, IF raised THEN out
                                         ELSE IF sz > 0 THEN "none"
                                         ELSE "Zero-sized download"),
                      !.ph = IF ~raised /\ sz > 0 THEN "returned" ELSE "except"]
    /\ UNCHANGED dlOther

\* except Exception as e: last_exc = e; break after the last attempt, else
\* sleep 2 ** i + random.random()
DlExcept ==
    /\ DlAt("except")
    /\ \E j \in Jitters :
         dl' = IF LastAttempt(dl.i, dl.attempts)
               THEN [dl EXCEPT !.last_exc = dl.errs[Len(dl.errs)], !.ph = "loop",
                               !.i = dl.attempts + 1]
               ELSE [dl EXCEPT !.last_exc = dl.errs[Len(dl.errs)], !.ph = "loop",
                               !.i = @ + 1,
                               !.slept = Append(@, 10 * Pow2(dl.i) + j)]
    /\ UNCHANGED dlOther

\* raise RuntimeError(f"Failed to download after {attempts} attempts: {last_exc}")
DlFail ==
    /\ DlAt("loop") /\ dl.i > dl.attempts
    /\ dl' = [dl EXCEPT !.ph = "raised", !.exc = "RuntimeError",
                        !.msg = dl.last_exc]
    /\ UNCHANGED dlOther

InitDownload ==
    /\ OrchIdle("download_from_drive")
    /\ sup = SupIdle /\ unz = UnzIdle /\ rn = RnIdle /\ pair = PairIdle /\ ag = AgIdle
    /\ \E u \in Urls, n \in 0..DefaultAttempts :
         dl = [DlIdle EXCEPT !.ph = "call", !.url = u, !.attempts = n]

NextDownload ==
    \/ DlParse
    \/ DlAttempt
    \/ DlExcept
    \/ DlFail

SpecDownload == InitDownload /\ [][NextDownload]_vars

\* A turn of the try in which gdown.download has returned and the ValueError
\* that a re-entered _sig_handler lets out ("finally: ....remove(v)" on a name
\* the nested call has removed, main.py:118-119) arrives before the test of
\* out_path: "except Exception" takes it for a failure of the attempt.
DlInterrupted ==
    /\ DlAt("loop") /\ dl.i <= dl.attempts
    /\ \E out \in {"nofile", "empty", "file"} :
         LET sz == SizeAfter(dl.size, out)
         IN  dl' = [dl EXCEPT
                      !.size = sz,
                      !.sizes = Append(@, sz),
                      !.outs = Append(@, out),
                      !.errs = Append(@, "ValueError"),
                      !.ph = "except"]
    /\ UNCHANGED dlOther

NextDownloadInterrupted ==
    \/ DlParse
    \/ DlAttempt
    \/ DlInterrupted
    \/ DlExcept
    \/ DlFail

\* download_from_drive called by a run that receives signals
SpecDownloadInterrupted == InitDownload /\ [][NextDownloadInterrupted]_vars

\* ---------------------------------------------------- the two entry points
\* main() of main.py and main() of sweap_salvage_testing_script.py, each as
\* a function of its own from one stage to the next, run side by side: at
\* every step both are given the same outcome of the stage's external
\* operations. Without signals.
pairOther == <<orchVars, sup, unz, rn, dl, ag>>

\* if x in lst: lst.remove(x)
RemoveIfIn(lst, x) == IF x \in Range(lst) THEN RemoveFirst(lst, x) ELSE lst

PairStages == {"volume", "download", "unzip", "copy", "build", "run", "agent",
               "tests", "cleanup"}

\* what the external operations of a stage can do
StageOutcomes(stage) ==
    CASE stage = "tests" -> {"rc0", "rc1", "timeout", "raise"}
      [] stage \in {"volume", "copy", "agent", "cleanup"} -> {"ok", "raise"}
      [] stage = "run" -> {"ok", "rc1"}
      [] OTHER -> {"ok", "fail"}

\* main.py, lines 129-326
MainStep(st, ts, kp, o) ==
    LET t == ts[st.idx]
        rec(status) == Append(st.results, [task_id |-> t, status |-> status])
        uncaught == [st EXCEPT !.exit = "uncaught"]
    IN  CASE st.pc = "loop" ->
               IF st.idx < Len(ts)
               THEN [st EXCEPT !.idx = @ + 1, !.pc = "volume"]
               ELSE [st EXCEPT !.pc = "done", !.exit = "ok",
                               !.containers = IF kp THEN @ ELSE <<>>,
                               !.volumes = IF kp THEN @ ELSE <<>>]
          [] st.pc = "volume" ->
               IF o = "raise" THEN uncaught
               ELSE [st EXCEPT !.volumes = Append(@, VolumeName(t)),
                               !.pc = "download"]
          [] st.pc = "download" ->
               IF o = "ok" THEN [st EXCEPT !.pc = "unzip"]
               ELSE [st EXCEPT !.results = rec("download_error"), !.pc = "loop"]
          [] st.pc = "unzip" ->
               IF o = "ok" THEN [st EXCEPT !.pc = "copy"]
               ELSE [st EXCEPT !.results = rec("unzip_error"), !.pc = "loop"]
          [] st.pc = "copy" ->
               IF o = "raise" THEN uncaught ELSE [st EXCEPT !.pc = "build"]
          [] st.pc = "build" ->
               IF o = "ok" THEN [st EXCEPT !.pc = "run"]
               ELSE [st EXCEPT !.results = rec("build_failed"), !.pc = "loop",
                               !.volumes = IF kp THEN @
                                           ELSE RemoveIfIn(@, VolumeName(t))]
          [] st.pc = "run" ->
               IF o = "ok"
               THEN [st EXCEPT !.containers = Append(@, ContainerName(t)),
                               !.pc = "agent"]
               ELSE [st EXCEPT !.results = rec("run_failed"), !.pc = "loop",
                               !.volumes = IF kp THEN @
                                           ELSE RemoveIfIn(@, VolumeName(t))]
          [] st.pc = "agent" -> [st EXCEPT !.pc = "tests"]
          [] st.pc = "tests" ->
               [st EXCEPT !.pc = "cleanup",
                          !.results = rec(CASE o \in {"rc0", "rc1"} -> "tests_ran"
                                            [] o = "timeout" -> "tests_timeout"
                                            [] OTHER -> "tests_error")]
          [] st.pc = "cleanup" ->
               IF kp THEN [st EXCEPT !.pc = "loop"]
               ELSE IF o = "raise" THEN uncaught
               ELSE [st EXCEPT !.pc = "loop",
                               !.containers = RemoveIfIn(@, ContainerName(t)),
                               !.volumes = RemoveIfIn(@, VolumeName(t))]

\* all_results.append(result) of the script left out
SweapRecord_Dropped(results, t, status) == results

\* all_results.append(result)
SweapRecord(results, t, status) ==
    Append(results, [task_id |-> t, status |-> status])

\* sweap_salvage_testing_script.py, lines 516-686
SweapStep(st, ts, kp, o) ==
    LET t == ts[st.idx]
        vol == "task_vol_" \o t
        con == "container_" \o Lower(t)
        rec(status) == SweapRecord(st.results, t, status)
        uncaught == [st EXCEPT !.exit = "uncaught"]
    IN  CASE st.pc = "loop" ->
               IF st.idx < Len(ts)
               THEN [st EXCEPT !.idx = @ + 1, !.pc = "volume"]
               ELSE [st EXCEPT !.pc = "done", !.exit = "ok",
                               !.containers = IF kp THEN @ ELSE <<>>,
                               !.volumes = IF kp THEN @ ELSE <<>>]
          [] st.pc = "volume" ->
               IF o = "raise" THEN uncaught
               ELSE [st EXCEPT !.volumes = Append(@, vol), !.pc = "download"]
          [] st.pc = "download" ->
               IF o = "ok" THEN [st EXCEPT !.pc = "unzip"]
               ELSE [st EXCEPT !.results = rec("download_error"), !.pc = "loop"]
          [] st.pc = "unzip" ->
               IF o = "ok" THEN [st EXCEPT !.pc = "copy"]
               ELSE [st EXCEPT !.results = rec("unzip_error"), !.pc = "loop"]
          [] st.pc = "copy" ->
               IF o = "raise" THEN uncaught ELSE [st EXCEPT !.pc = "build"]
          [] st.pc = "build" ->
               IF o = "ok" THEN [st EXCEPT !.pc = "run"]
               ELSE [st EXCEPT !.results = rec("build_failed"), !.pc = "loop",
                               !.volumes = IF kp THEN @ ELSE RemoveIfIn(@, vol)]
          [] st.pc = "run" ->
               IF o = "ok"
               THEN [st EXCEPT !.containers = Append(@, con), !.pc = "agent"]
               ELSE [st EXCEPT !.results = rec("run_failed"), !.pc = "loop",
                               !.volumes = IF kp THEN @ ELSE RemoveIfIn(@, vol)]
          [] st.pc = "agent" -> [st EXCEPT !.pc = "tests"]
          [] st.pc = "tests" ->
               [st EXCEPT !.pc = "cleanup",
                          !.results = rec(CASE o = "rc0" -> "tests_passed"
                                            [] o = "rc1" -> "tests_failed"
                                            [] o = "timeout" -> "tests_timeout"
                                            [] OTHER -> "tests_error")]
          [] st.pc = "cleanup" ->
               IF kp THEN [st EXCEPT !.pc = "loop"]
               ELSE IF o = "raise" THEN uncaught
               ELSE [st EXCEPT !.pc = "loop",
                               !.containers = RemoveIfIn(@, con),
                               !.volumes = RemoveIfIn(@, vol)]

PairRunning ==
    pc = "pair" /\ pair.m.exit = "running" /\ pair.s.exit = "running"

Both(o) ==
    [pair EXCEPT !.m = MainStep(pair.m, pair.tasks, pair.keep, o),
                 !.s = SweapStep(pair.s, pair.tasks, pair.keep, o),
                 !.steps = @ + 1]

\* for i, row in df.iterrows(): the next row, or the end of the loop with
\* the final _cleanup() and the summary
PairLoop ==
    /\ PairRunning /\ pair.m.pc = "loop"
    /\ pair' = Both("ok")
    /\ UNCHANGED pairOther

\* one stage of the task, with the same outcome for both
PairStage ==
    /\ PairRunning /\ pair.m.pc \in PairStages
    /\ \E o \in StageOutcomes(pair.m.pc) : pair' = Both(o)
    /\ UNCHANGED pairOther

InitPair ==
    /\ OrchIdle("pair")
    /\ sup = SupIdle /\ unz = UnzIdle /\ rn = RnIdle /\ dl = DlIdle /\ ag = AgIdle
    /\ \E ts \in SeqsUpTo(TaskIds, MaxTasks), kp \in BOOLEAN :
         pair = [PairIdle EXCEPT !.tasks = ts, !.keep = kp]

NextPair == PairLoop \/ PairStage

SpecPair == InitPair /\ [][NextPair]_vars

\* ---------------------------------------------------------- credentials
\* main.py:241-247 (env_keys) and swe/agent.py:96-103 (env_flags and the
\* log line), then the environment docker gives the runner container for
\* the flags "-e NAME". A host variable is unset, empty or holds a secret.
agOther == <<orchVars, sup, unz, rn, dl, pair>>

HostValues == {"unset", "", "sk-secret"}

\* os.environ.get(k, "")
EnvironGet(host, k) == IF host[k] = "unset" THEN "" ELSE host[k]

\* the test of v left out
Truthy_Always(v) == TRUE

\* if v:
Truthy(v) == v # ""

\* "docker run -e NAME": the container gets NAME when the client has it set
ContainerEnv(flags, host) ==
    {k \in Range(CredentialKeys) :
        /\ host[k] # "unset"
        /\ \E n \in 1..(Len(flags) - 1) : flags[n] = "-e" /\ flags[n + 1] = k}

AgAt(p) == pc = "credentials" /\ ag.ph = p

\* env_keys = {"OPENAI_API_KEY": os.environ.get("OPENAI_API_KEY", ""), ...}
AgEnvKeys ==
    /\ AgAt("call")
    /\ ag' = [ag EXCEPT !.ph = "loop", !.i = 1,
                        !.env_keys = [n \in 1..Len(CredentialKeys) |->
                                        EnvironGet(ag.host, CredentialKeys[n])]]
    /\ UNCHANGED agOther

\* one turn of "for k, v in env_keys.items()"
AgLoop ==
    /\ AgAt("loop") /\ ag.i <= Len(CredentialKeys)
    /\ LET k == CredentialKeys[ag.i]
           v == ag.env_keys[ag.i]
       IN  ag' = IF Truthy(v)
                 THEN [ag EXCEPT !.i = @ + 1,
                                 !.env_flags = @ \o <<"-e", k>>,
                                 !.api_keys_found = Append(@, k)]
                 ELSE [ag EXCEPT !.i = @ + 1]
    /\ UNCHANGED agOther

\* log(f"API keys detected: {api_keys_found}")
AgLog ==
    /\ AgAt("loop") /\ ag.i > Len(CredentialKeys)
    /\ ag' = [ag EXCEPT !.ph = "logged", !.logged = <<ag.api_keys_found>>]
    /\ UNCHANGED agOther

\* the runner container is started with env_flags
AgStart ==
    /\ AgAt("logged")
    /\ ag' = [ag EXCEPT !.ph = "started",
                        !.container = ContainerEnv(ag.env_flags, ag.host)]
    /\ UNCHANGED agOther

InitCredentials ==
    /\ OrchIdle("credentials")
    /\ sup = SupIdle /\ unz = UnzIdle /\ rn = RnIdle /\ dl = DlIdle
    /\ pair = PairIdle
    /\ \E h \in [Range(CredentialKeys) -> HostValues] :
         ag = [AgIdle EXCEPT !.ph = "call", !.host = h]

NextCredentials == AgEnvKeys \/ AgLoop \/ AgLog \/ AgStart

SpecCredentials == InitCredentials /\ [][NextCredentials]_vars

Next ==
    \/ HaveDocker
    \/ ReadSheet
    \/ EnsureSweImage
    \/ InstallHandlers
    \/ NextTask
    \/ EvictFrv
    \/ EvictRm
    \/ VolCreate
    \/ VolRegister
    \/ Download
    \/ Unzip
    \/ CopyToVolume
    \/ StageBuildContext
    \/ BuildImage
    \/ FailedFrv
    \/ FailedRm
    \/ RmStaleContainer
    \/ RunContainer
    \/ RegisterContainer
    \/ RunAgent
    \/ RunTests
    \/ EotRmContainer
    \/ EotFrv
    \/ EotRmVolume
    \/ EndOfTasks
    \/ FinalCleanup
    \/ CleanupRmContainer
    \/ CleanupFrv
    \/ CleanupRmVolume
    \/ CleanupReturn
    \/ HandlerExit
    \/ Signal
    \/ WriteSummary

Spec == Init /\ [][Next]_vars

\* runs in which no signal is delivered: the steps of Next that such a run can
\* take (no handler runs, and the final sweep finds no tracked container, see
\* RunFindsNoContainerToSweep)
NextRun ==
    \/ HaveDocker
    \/ ReadSheet
    \/ EnsureSweImage
    \/ InstallHandlers
    \/ NextTask
    \/ EvictFrv
    \/ EvictRm
    \/ VolCreate
    \/ VolRegister
    \/ Download
    \/ Unzip
    \/ CopyToVolume
    \/ StageBuildContext
    \/ BuildImage
    \/ FailedFrv
    \/ FailedRm
    \/ RmStaleContainer
    \/ RunContainer
    \/ RegisterContainer
    \/ RunAgent
    \/ RunTests
    \/ EotRmContainer
    \/ EotFrv
    \/ EotRmVolume
    \/ EndOfTasks
    \/ FinalCleanup
    \/ CleanupFrv
    \/ CleanupRmVolume
    \/ CleanupReturn
    \/ WriteSummary

SpecRun == Init /\ [][NextRun]_vars

\* The run is one thread executing statement after statement: whenever a
\* next step exists it is eventually taken.  A blocked call has no next step.
SpecRunFair == SpecRun /\ WF_vars(NextRun)

\* sheets in which every row has a task id of its own
DistinctSheets(n) ==
    {rs \in SeqsUpTo(TaskIds, n) :
        \A i, j \in 1..Len(rs) : rs[i] = rs[j] => i = j}

\* uninterrupted runs of either entry point over such sheets of up to
\* MaxBatch rows
InitBatch ==
    /\ rows \in DistinctSheets(MaxBatch)
    /\ keep \in BOOLEAN
    /\ variant \in Variants
    /\ InitState

SpecBatch == InitBatch /\ [][NextRun]_vars

\* runs over sheets whose task_id cells are as read_csv delivers them:
\* ids, ids with surrounding blanks, blank cells, missing cells
InitRows ==
    /\ rows \in SeqsUpTo(RawCells, MaxRows)
    /\ keep \in BOOLEAN
    /\ variant = "main"
    /\ InitState

SpecRows == InitRows /\ [][NextRun]_vars

\* _cleanup on its own: any registry contents, any engine contents, called
\* twice in succession
InitCleanup ==
    /\ rows = <<>>
    /\ tasks = <<>>
    /\ keep \in BOOLEAN
    /\ variant = "main"
    /\ pc = "call1"
    /\ idx = 0
    /\ containers \in SeqsUpTo(ContainerNames, MaxReg)
    /\ volumes \in SeqsUpTo(VolumeNames, MaxReg)
    /\ all_results = <<>>
    /\ result_json = [t \in TaskIds |-> NoResult]
    /\ summary = NoSummary
    /\ summary_csv = NoCsv
    /\ build_log = [t \in TaskIds |-> NoLog]
    /\ sup = SupIdle
    /\ FnIdle
    /\ engV \in SUBSET VolumeNames
    /\ engC \in [ContainerNames -> VolumeNames \cup {NoVol}]
    /\ relV = [v \in VolumeNames |-> 0]
    /\ relC = [c \in ContainerNames |-> 0]
    /\ stages = <<>>
    /\ evict = NoEvict
    /\ frames = <<>>
    /\ ncmd = 0
    /\ sigs = 0
    /\ exitKind = "running"

NextCleanup ==
    \/ CallCleanup
    \/ CleanupRmContainer
    \/ CleanupFrv
    \/ CleanupRmVolume
    \/ CleanupReturn

SpecCleanup == InitCleanup /\ [][NextCleanup]_vars


\* ================================================================ claims
\* in a run without a signal _cleanup never has a container to release
RunFindsNoContainerToSweep == sigs = 0 => ~InCleanup("c")

LastResult == all_results[Len(all_results)]

RegistryEmpty == containers = <<>> /\ volumes = <<>>

\* the current task has its result recorded
CurRecorded == stages # <<>> /\ stages[Len(stages)].s = "result"

\* C1: a failure of any stage of a task is caught and recorded, and the run
\* goes on: no exception of a task's command ends the process, and at the
\* head of the loop every task processed so far has one result record.
C1_TaskFailureNeverAbortsRun ==
    /\ exitKind = "uncaught_cmd" => idx = 0
    /\ pc = "loop" => Len(all_results) = idx

\* C2: wherever a signal can be delivered, every volume and test container
\* the run created and has not tried to release is in the registry.
C2_CreatedIsRegistered ==
    (Running /\ pc \in InstalledPcs) =>
        /\ \A v \in engV : relV[v] = 0 => v \in Range(volumes)
        /\ \A c \in ContainerNames :
               (engC[c] # NoVol /\ relC[c] = 0) => c \in Range(containers)

\* no task_id occurs in two rows
TaskIdsDistinct ==
    \A i, j \in 1..Len(tasks) : tasks[i] = tasks[j] => i = j

ReleasedAtMostOnce ==
    /\ \A v \in VolumeNames : relV[v] <= 1
    /\ \A c \in ContainerNames : relC[c] <= 1

\* C3: once a signal has been delivered and no handler is active any more,
\* the process has ended with exit code 130, and (the task ids being
\* distinct) no name was released more than once on the way.
C3_SignalExits130AfterOnePass ==
    /\ (sigs > 0 /\ frames = <<>>) => ExitCode = 130
    /\ (TaskIdsDistinct /\ ExitCode = 130) => ReleasedAtMostOnce

DownloadErrorVolumes ==
    {VolumeName(all_results[i].task_id) :
        i \in {k \in 1..Len(all_results) : all_results[k].status = "download_error"}}

JustRecordedDownloadError ==
    /\ Running
    /\ frames = <<>>
    /\ pc = "loop"
    /\ idx > 0
    /\ all_results # <<>>
    /\ LastResult.task_id = CurTask
    /\ LastResult.status = "download_error"

EntriesFor(t) == {i \in 1..Len(all_results) : all_results[i].task_id = t}

RowsWith(t) == {j \in 1..Len(tasks) : tasks[j] = t}

\* row j has reached a terminal status
Finished(j) == j < idx \/ (j = idx /\ CurRecorded)

OneResult(t) ==
    /\ Cardinality(EntriesFor(t)) = 1
    /\ result_json[t] # NoResult
    /\ \A i \in EntriesFor(t) : result_json[t] = all_results[i]

\* C5 as stated: every task that has reached a terminal status has exactly
\* one result.json and exactly one entry in all_results, and they agree.
C5_AsStated ==
    \A j \in 1..Len(tasks) : Finished(j) => OneResult(tasks[j])

\* C5 amended: the same for every task whose task_id occurs in one row only;
\* before it has reached a terminal status it has neither.
C5_OneResultPerUniqueTask ==
    \A j \in 1..Len(tasks) :
        Cardinality(RowsWith(tasks[j])) = 1 =>
            IF Finished(j)
            THEN OneResult(tasks[j])
            ELSE EntriesFor(tasks[j]) = {} /\ result_json[tasks[j]] = NoResult

C5_Witness ==
    /\ Len(tasks) = 2
    /\ tasks[1] # tasks[2]
    /\ Finished(2)
    /\ all_results[1].status = "run_failed"
    /\ all_results[2].status = "tests_timeout"

\* C6 as stated: _cleanup never raises, and a second call right after the
\* first issues no command and leaves the registry empty.
C6_AsStated ==
    /\ Running
    /\ pc = "called_twice" => ncmd = 0 /\ RegistryEmpty

\* C6 amended: _cleanup never raises and a second call right after the first
\* issues no command; without --keep the registry is empty after the first
\* call, with --keep no call issues a command.
C6_Idempotent ==
    /\ Running
    /\ pc = "called_twice" => ncmd = 0
    /\ (~keep /\ pc \in {"call2", "called_twice"}) => RegistryEmpty
    /\ keep => ncmd = 0

C6_Witness ==
    /\ ~keep
    /\ pc = "called_twice"
    /\ \E v \in VolumeNames : relV[v] = 2
    /\ \E c \in ContainerNames : relC[c] = 1

\* C7: the release of one container or volume name is never attempted a
\* second time, and a name whose release was attempted is no longer tracked
\* once the release step is over.
C7_NoSecondRelease ==
    TaskIdsDistinct =>
        /\ ReleasedAtMostOnce
        /\ (Running /\ frames = <<>>) =>
               \A c \in ContainerNames : relC[c] >= 1 => c \notin Range(containers)

\* C8 as stated: the registry starts empty and is empty when the run
\* completes normally and when the process exits on an interruption.
C8_AsStated ==
    /\ pc = "have_docker" => RegistryEmpty
    /\ ExitCode \in {0, 130} => RegistryEmpty

\* C8 amended: the same, the two exits only when --keep is not given.
C8_DrainedUnlessKeep ==
    /\ pc = "have_docker" => RegistryEmpty
    /\ (~keep /\ ExitCode \in {0, 130}) => RegistryEmpty

C8_Witness ==
    /\ ~keep
    /\ ExitCode = 130
    /\ pc = "tests"
    /\ relC[CurCont] = 1
    /\ relV[CurVol] = 1

\* C9: without --keep, when the next task's pipeline is about to begin the
\* registry holds nothing and every resource of the earlier tasks has had
\* its release attempted.
C9_CleanedBeforeNextTask ==
    (~keep /\ Running /\ pc = "loop") =>
        /\ RegistryEmpty
        /\ \A v \in engV : relV[v] >= 1

StageNames == <<"volume", "download", "unzip", "copy", "build", "run",
                "agent", "tests">>

\* C10: the stages of a task are carried out in the fixed order, a stage
\* only after its predecessor succeeded (the agent's outcome apart), the
\* result is recorded right after the first failure or after the tests; a
\* failed start gives run_failed and a failed build gives build_failed, so
\* neither is followed by the agent or the tests; and the container is in
\* the registry when the agent is launched.
C10_StagesInOrder ==
    /\ \A i \in 1..Len(stages) :
         /\ stages[i].s = "result" => i = Len(stages) /\ i > 1
         /\ stages[i].s # "result" => i <= Len(StageNames) /\ stages[i].s = StageNames[i]
         /\ i < Len(stages) =>
              /\ stages[i].ok \/ stages[i].s = "agent" \/ stages[i+1].s = "result"
              /\ stages[i+1].s = "result" => ~stages[i].ok \/ stages[i].s = "tests"
    /\ CurRecorded =>
         /\ stages[Len(stages) - 1].s = "run" <=> LastResult.status = "run_failed"
         /\ stages[Len(stages) - 1].s = "build" <=> LastResult.status = "build_failed"
         /\ LastResult.task_id = CurTask
    /\ pc = "agent" => CurCont \in Range(containers)

C10_Witness ==
    /\ idx = 2
    /\ all_results[1].status = "run_failed"
    /\ Len(stages) = 9
    /\ stages[8].s = "tests" /\ stages[8].ok


TestStatuses ==
    {"tests_ran", "tests_passed", "tests_failed", "tests_timeout", "tests_error"}

\* the current task's build was invoked and did not succeed
BuildDidFail == \E i \in 1..Len(stages) : stages[i] = Ev("build", FALSE)

\* C11: a build that exits non-zero or runs into its deadline ends the task
\* with build_failed and without a test container of its own; and when the
\* run is over the summary has one entry per row, in row order, whatever
\* happened to the builds.
C11_BuildFailureIsLocal ==
    /\ BuildDidFail =>
         /\ \A i \in 1..Len(stages) : stages[i].s \notin {"run", "agent", "tests"}
         /\ CurRecorded /\ LastResult.status = "build_failed"
         /\ engC[CurCont] # CurVol
    /\ pc = "done" =>
         /\ Len(summary) = Len(tasks)
         /\ \A i \in 1..Len(tasks) : summary[i].task_id = tasks[i]

C11_Witness ==
    /\ pc = "done"
    /\ Len(summary) = 3
    /\ summary[1].status \in TestStatuses
    /\ summary[2].status = "build_failed"
    /\ summary[3].status \in TestStatuses

\* C12: every step that runs the image build leaves the build's output in
\* the task's build log, whatever the outcome of the build.
C12_BuildLogAlwaysWritten ==
    [][(AtMain("build") /\ pc' # "build") => build_log'[CurTask] = "output"]_vars

\* C13: no behaviour of the agent changes the task's status or skips the
\* tests: once the test container is started (the flow is at the agent
\* stage), the test command is executed and the task's result is one of the
\* test stage.
C13_TestsFollowStartedContainer ==
    AtMain("agent") ~> (CurRecorded /\ LastResult.status \in TestStatuses)

\* the supervisor is in its loop and more than timeout_seconds (positive)
\* have passed since start_time
DeadlineElapsed ==
    SupAt("read") /\ sup.timeout > 0 /\ sup.now - sup.start > sup.timeout

\* C14: the supervisor enforces the deadline whatever the agent does: once
\* a positive timeout has elapsed, the agent stage returns (after terminate,
\* the grace period and the kill of a process still alive).
C14_DeadlineEnforced ==
    DeadlineElapsed ~> (sup.ph = "returned" /\ sup.proc = "exited")

\* C15: the deadline is measured from the agent's first line: when the
\* supervisor takes the deadline branch, more than timeout_seconds have
\* passed since the first line was emitted.
C15_DeadlineFromFirstLine ==
    sup.expired => sup.at - sup.first > sup.timeout

\* the last test command run and the result recorded after it
LastTestEv == stages[Len(stages) - 1]
TestJustRecorded ==
    /\ Len(stages) >= 2 /\ CurRecorded /\ LastTestEv.s = "tests"
    /\ pc \in {"loop", "eot_rm_c"}

\* the fields of a result dictionary
Has(r, k) == k \in DOMAIN r

\* a result dictionary r against the way e the test command ended
TestResultMatches(r, e) ==
    /\ r.task_id = CurTask
    /\ e.how \in {"done", "timeout", "raise"}
    /\ e.how = "done" =>
         /\ ~Has(r, "error")
         /\ IF variant = "main"
            THEN /\ r.status = "tests_ran"
                 /\ r.tests_ran_successfully = TRUE
                 /\ r.tests_exit_code = e.rc /\ e.rc # None
            ELSE /\ r.status = (IF e.rc = Some(0) THEN "tests_passed"
                                ELSE "tests_failed")
                 /\ r.test_exit_code = e.rc /\ e.rc # None
    /\ e.how = "timeout" =>
         /\ r.status = "tests_timeout"
         /\ ~Has(r, "error")
         /\ IF variant = "main"
            THEN r.tests_exit_code = None /\ r.tests_ran_successfully = FALSE
            ELSE ~Has(r, "test_exit_code")
    /\ e.how = "raise" =>
         /\ r.status = "tests_error"
         /\ Has(r, "error")
         /\ IF variant = "main"
            THEN r.tests_exit_code = None /\ r.tests_ran_successfully = FALSE
            ELSE ~Has(r, "test_exit_code")

\* C16: the test stage ends in one of three ways and records one result for
\* it.  Completed: the exit code is recorded, with status tests_ran and the
\* success flag true whatever the code (main.py), or with tests_passed for
\* code 0 and tests_failed otherwise (sweap).  Deadline expired:
\* tests_timeout and no exit code.  Any other error: tests_error with the
\* message.  The step of the test stage appends exactly that one result.
C16_TestStageRecordsOneResult ==
    [][(AtMain("tests") /\ pc' # "tests") =>
         /\ all_results' = Append(all_results, all_results'[Len(all_results')])
         /\ result_json'[CurTask] = all_results'[Len(all_results')]
         /\ stages'[Len(stages') - 1].s = "tests"
         /\ TestResultMatches(all_results'[Len(all_results')],
                        stages'[Len(stages') - 1])]_vars

C16_Witness ==
    /\ TestJustRecorded
    /\ variant = "sweap"
    /\ LastTestEv.how = "done" /\ LastTestEv.rc = Some(1)
    /\ LastResult.status = "tests_failed"
    /\ Len(all_results) = 2 /\ all_results[1].status = "tests_timeout"

ClosedStatuses ==
    {"download_error", "unzip_error", "build_failed", "run_failed"}
        \cup TestStatuses

\* the statuses that name a failure of stage s
StatusesOfFailure(s) ==
    CASE s = "download" -> {"download_error"}
      [] s = "unzip" -> {"unzip_error"}
      [] s = "build" -> {"build_failed"}
      [] s = "run" -> {"run_failed"}
      [] s = "tests" -> {"tests_timeout", "tests_error"}
      [] OTHER -> {}

\* positions of the current task's stages that failed (the agent's outcome
\* is not a failure of the task)
FailedStages ==
    {i \in 1..Len(stages) :
        stages[i].s \notin {"agent", "result"} /\ ~stages[i].ok}

FirstFailedStage ==
    stages[CHOOSE i \in FailedStages : \A j \in FailedStages : i <= j].s

\* C17: every recorded result has a status of the closed set, and the
\* status of a task names the first stage that failed: download_error for
\* the fetch, unzip_error for the extraction (rejected entry, unreadable
\* archive, no .git), build_failed for the build (non-zero exit or
\* timeout), run_failed for the container start; with no failed stage it is
\* the status of completed tests.
C17_StatusNamesFirstFailure ==
    /\ \A i \in 1..Len(all_results) : all_results[i].status \in ClosedStatuses
    /\ CurRecorded =>
         IF FailedStages = {}
         THEN LastResult.status \in {"tests_ran", "tests_passed", "tests_failed"}
         ELSE LastResult.status \in StatusesOfFailure(FirstFailedStage)

C17_Witness ==
    /\ Len(all_results) = 3
    /\ all_results[1].status = "download_error"
    /\ all_results[2].status = "run_failed"
    /\ all_results[3].status = "unzip_error"
    /\ CurRecorded /\ FailedStages # {} /\ FirstFailedStage = "unzip"

\* C18: tasks are taken one at a time in the order of the input: a task
\* starts only at the head of the loop, it is the next row, and the task
\* before it has its result recorded.  The results are in the order of
\* processing, and a step either leaves the collection alone or appends one
\* result to it.
C18_InOrderAppendOnly ==
    [][/\ idx' # idx =>
            /\ pc = "loop" /\ idx' = idx + 1
            /\ Len(all_results) = idx
            /\ tasks' = ProcessedIds(rows)
       /\ \/ all_results' = all_results
          \/ /\ Len(all_results') = Len(all_results) + 1
             /\ SubSeq(all_results', 1, Len(all_results)) = all_results
             /\ Len(all_results') = idx'
       /\ \A i \in 1..Len(all_results') : all_results'[i].task_id = tasks'[i]
      ]_vars

C18_Witness ==
    /\ pc = "done"
    /\ Len(summary) = 3
    /\ summary[1].task_id = "b" /\ summary[2].task_id = "A"
    /\ summary[3].task_id = "a"

\* a task_id cell that is absent, blank or made of whitespace only
BlankCell(c) == c = NaCell \/ Strip(c) = ""

\* the ids of the rows that are not blank
NonBlankIds == {Strip(rows[i]) : i \in {j \in 1..Len(rows) : ~BlankCell(rows[j])}}

\* the volumes and containers named after the ids of a set
NamesOf(ids) ==
    {VolumeName(t) : t \in ids} \cup {ContainerName(t) : t \in ids}

\* C19: a row whose task_id is absent, blank or whitespace-only does not
\* enter the pipeline and has no entry in the summary: the tasks processed
\* are at most the non-blank rows, every volume, container, result file and
\* result belongs to the id of a non-blank row, and no result carries an
\* empty id or the printed form of a missing cell.
C19_BlankRowsExcluded ==
    /\ Range(tasks) \subseteq NonBlankIds
    /\ Len(tasks) <= Cardinality({j \in 1..Len(rows) : ~BlankCell(rows[j])})
    /\ engV \cup Range(volumes) \cup Range(containers)
          \cup {c \in ContainerNames : engC[c] # NoVol} \subseteq NamesOf(NonBlankIds)
    /\ \A t \in TaskIds : result_json[t] # NoResult => t \in NonBlankIds
    /\ \A i \in 1..Len(all_results) : all_results[i].task_id \in NonBlankIds
    /\ pc = "done" =>
         /\ Len(summary) <= Len(tasks)
         /\ \A i \in 1..Len(summary) :
              /\ summary[i].task_id \in NonBlankIds
              /\ summary[i].task_id \notin {"", "nan", NaCell}

C19_Witness ==
    /\ rows = <<" ", " a">>
    /\ pc = "done"
    /\ Len(summary) = 1 /\ summary[1].task_id = "a"
    /\ summary[1].status \in TestStatuses

\* the step that creates the volume of the current task
CreatesVolume == AtMain("vol_create") /\ pc' = "vol_register"

\* the step that starts (or tries to start) the test container
StartsContainer == AtMain("run") /\ pc' # "run"

\* C20 as stated: when the volume of a task is created no container
\* references a volume of that name and no volume of that name exists, and
\* when the test container is started no container of its name exists.
C20_AsStated ==
    [][/\ CreatesVolume => UsersOf(CurVol) = {} /\ CurVol \notin engV
       /\ StartsContainer => engC[CurCont] = NoVol]_vars

\* C20: the removals of leftovers are issued before the creations, in the
\* order: containers referencing the volume name, the volume, then (before
\* the start) the container of the test container's name.  Where these
\* commands complete, nothing of that name is left when the volume is
\* created and when the container is started; nothing is created anywhere
\* else.
C20_LeftoversRemovedFirst ==
    [][/\ CreatesVolume =>
            /\ evict.frv # "none" /\ evict.rmv # "none" /\ evict.rmc = "none"
            /\ (evict.frv = "done" /\ evict.rmv = "done") =>
                 UsersOf(CurVol) = {} /\ CurVol \notin engV
            /\ CurVol \in engV'
       /\ StartsContainer =>
            /\ evict.rmc # "none" /\ CurVol \in engV
            /\ evict.rmc = "done" => engC[CurCont] = NoVol
       /\ evict'.rmv # "none" => evict'.frv # "none"
       /\ evict'.rmc # "none" => evict'.frv = "none" /\ evict'.rmv = "none"
       /\ engV' \ engV # {} => CreatesVolume
       /\ (\E c \in ContainerNames : engC[c] = NoVol /\ engC'[c] # NoVol) =>
            StartsContainer
      ]_vars

\* a task id processed a second time, over the volume and the container the
\* first time left (keep mode), ends with its tests run
C20_Witness ==
    /\ keep /\ tasks = <<"a", "a">>
    /\ Len(all_results) = 2
    /\ all_results[1].status = "tests_ran"
    /\ all_results[2].status = "tests_ran"
    /\ pc = "loop"

\* the members of the archive whose resolved path is outside dest_dir
Escaping ==
    {k \in 1..Len(unz.archive) :
        ~IsPrefix(DestDir, Resolve(Join(DestDir, unz.archive[k])))}

\* C21: every member is validated before anything is extracted: of an
\* archive with a member whose resolved path is outside the destination no
\* file is written, the members before the offending one included, and the
\* extraction ends with unzip_error.
C21_NothingExtractedFromBadArchive ==
    (pc = "unzip_to" /\ Escaping # {}) =>
        /\ unz.written = {}
        /\ unz.ph \notin {"extract", "git_test"}
        /\ unz.ph = "end" => unz.status = "unzip_error"

C21_Witness ==
    /\ pc = "unzip_to" /\ unz.ph = "end" /\ unz.status = "unzip_error"
    /\ unz.readable
    /\ Len(unz.archive) = 2 /\ Escaping = {2}
    /\ unz.archive[1] = [abs |-> FALSE, comps |-> <<".git", "t">>]
    /\ unz.archive[2] = [abs |-> FALSE, comps |-> <<"t", "..", "..">>]

\* nothing of a task exists: no volume, no container, no result
NothingCreated ==
    /\ idx = 0 /\ engV = {} /\ RegistryEmpty /\ all_results = <<>>
    /\ \A c \in ContainerNames : engC[c] = NoVol

\* C22: without a signal the process ends early only for an engine that is
\* not available or for missing columns, with code 1 and nothing created;
\* every other run ends with code 0 after the summary is written.
C22_OnlyTwoFatalConditions ==
    ~Running =>
        \/ /\ exitKind = "fatal" /\ ExitCode = 1
           /\ pc \in {"have_docker", "read_sheet"}
           /\ NothingCreated
        \/ /\ exitKind = "ok" /\ ExitCode = 0
           /\ pc = "done" /\ Len(summary) = Len(tasks)

\* the main flow is at a cleanup command of a failure path or of the end of
\* a task, or a call of _cleanup (final sweep, handler) is active
CleanupPcs ==
    {"bf_frv", "bf_rm", "rf_frv", "rf_rm", "eot_rm_c", "eot_frv", "eot_rm_v"}

AtCleanupCommand == Running /\ (frames # <<>> \/ pc \in CleanupPcs)

\* C23: whatever way a cleanup command fails, on every cleanup path, the
\* step leaves the recorded results as they are and the run goes on.
C23_CleanupFailureSwallowed ==
    [][AtCleanupCommand =>
         /\ exitKind' \in {"running", "ok", "interrupted"}
         /\ all_results' = all_results
         /\ result_json' = result_json]_vars

\* the run has ended by exhausting the task list or by a signal
RunEnded == exitKind \in {"ok", "interrupted"}

\* C24: when the run has ended, by exhaustion of the task list or by an
\* interruption signal, the final sweep has left no resource tracked and the
\* summary has been written with one record per task processed so far.
C24_SweepAndSummaryAtEveryEnd ==
    RunEnded =>
        /\ ~keep => RegistryEmpty
        /\ summary # NoSummary
        /\ summary = all_results

\* every tracked volume and test container exists in the engine
TrackedExist ==
    /\ \A k \in 1..Len(volumes) : volumes[k] \in engV
    /\ \A k \in 1..Len(containers) : engC[containers[k]] # NoVol

\* the step removes a volume or a test container from the engine
EngineLoses ==
    \/ engV \ engV' # {}
    \/ \E c \in ContainerNames : engC[c] # NoVol /\ engC'[c] = NoVol

\* the registry after the step is the registry before it, possibly extended
RegistryKept ==
    /\ Len(volumes) <= Len(volumes')
    /\ SubSeq(volumes', 1, Len(volumes)) = volumes
    /\ Len(containers) <= Len(containers')
    /\ SubSeq(containers', 1, Len(containers)) = containers

\* the start-of-task removals of leftovers with the task's names
EvictionPcs == {"evict_frv", "evict_rm", "rm_stale_c"}

\* C25 as stated: with --keep no step shrinks the registry, no cleanup path
\* removes anything, and when the process exits every volume and test
\* container the run created (the tracked ones) still exists.
C25_AsStated ==
    [][keep =>
         /\ RegistryKept
         /\ EngineLoses => (frames = <<>> /\ pc \in EvictionPcs)
         /\ RunEnded' => TrackedExist']_vars

\* C25 amended: with --keep no step shrinks the registry and neither a
\* call of _cleanup nor a cleanup path of the loop removes a volume or a
\* container: what the run created is removed only by the start-of-task
\* eviction of a later task with the same volume or container name.
C25_KeepSkipsCleanup ==
    [][keep =>
         /\ RegistryKept
         /\ ncmd' = 0
         /\ pc' \notin CleanupPcs
         /\ EngineLoses => (frames = <<>> /\ pc \in EvictionPcs)]_vars

\* an interrupted --keep run: the first task ended build_failed, the second
\* had its container started, and all of it is still there at exit
C25_Witness ==
    /\ keep /\ exitKind = "interrupted"
    /\ Len(all_results) = 1 /\ all_results[1].status = "build_failed"
    /\ Len(volumes) = 2 /\ Len(containers) = 1
    /\ TrackedExist

\* the log as it was when the command was started ends with the command's
\* quoted command line
LoggedBeforeStart ==
    /\ rn.seen[1] # <<>>
    /\ rn.seen[1][Len(rn.seen[1])] = CommandLine(rn.argv)

\* C26: every external command that is started (by the runner, by the
\* engine probe, by the launch of the agent runner container) has its
\* fully quoted command line as the last log line before its start.
C26_EveryCommandLogged == rn.seen # <<>> => LoggedBeforeStart

RnDone == pc = "command" /\ rn.fn \in RunFns /\ rn.ph \in {"returned", "raised"}

\* C27: a completed command whose exit code does not raise is returned with
\* its exit code (and, captured, both output streams in order); a non-zero
\* exit code raises only in strict mode, a RuntimeError with the exit code
\* and the quoted command line; a timeout raises TimeoutExpired in both
\* modes, which is no RuntimeError and of which RuntimeError is no instance.
C27_RunnerOutcomes ==
    RnDone =>
        /\ (rn.proc.kind = "exit" /\ (~rn.check \/ rn.proc.rc = 0)) =>
              /\ rn.ph = "returned" /\ rn.ret = <<rn.proc.rc>>
              /\ rn.fn = "run_capture_argv" => rn.stdout = <<rn.proc.out>>
        /\ (rn.proc.kind = "exit" /\ rn.check /\ rn.proc.rc # 0) =>
              /\ rn.ph = "raised" /\ rn.exc = "RuntimeError"
              /\ rn.msg # <<>>
              /\ rn.msg[1].rc = rn.proc.rc
              /\ rn.msg[1].cmd = Quoted(rn.argv)
        /\ rn.proc.kind = "timeout" =>
              /\ rn.ph = "raised"
              /\ "TimeoutExpired" \in Bases(rn.exc)
              /\ "RuntimeError" \notin Bases(rn.exc)
              /\ "TimeoutExpired" \notin Bases("RuntimeError")

\* a strict capturing call with a quoted second argument that ended with exit code 1
C27_Witness ==
    /\ RnDone /\ rn.fn = "run_capture_argv" /\ rn.check
    /\ rn.argv = << <<"d">>, <<"SQ">> >>
    /\ rn.proc = [kind |-> "exit", rc |-> 1, out |-> <<"err", "out">>]
    /\ rn.exc = "RuntimeError"
    /\ rn.msg[1].cmd = <<"d", "SP", "SQ", "SQ", "DQ", "SQ", "DQ", "SQ", "SQ">>

\* C28: run_swe_agent_in_dedicated_container does not return normally when
\* the agent process failed: a call that returned had exit code 0.
C28_NonZeroExitRaises == (pc = "sup" /\ sup.ph = "returned") => sup.rc = 0

DlOver == pc = "download_from_drive" /\ dl.ph \in {"returned", "raised"}

\* C29: download_from_drive makes at most `attempts` attempts; it returns at
\* the first attempt that leaves a non-empty file and only there; between
\* two attempts it waits 2^attempt seconds plus a jitter below one second
\* and it does not wait after the last attempt; when all attempts failed it
\* raises RuntimeError with the error of the last attempt; a URL that does
\* not parse makes it raise ValueError before any attempt.
C29_DownloadRetries ==
    pc = "download_from_drive" =>
        /\ Len(dl.sizes) <= dl.attempts
        /\ \A k \in 1..Len(dl.sizes) :
             dl.sizes[k] > 0 => (k = Len(dl.sizes) /\ dl.ph = "returned")
        /\ dl.ph = "returned" => (dl.sizes # <<>> /\ dl.sizes[Len(dl.sizes)] > 0)
        /\ \A k \in 1..Len(dl.slept) :
             /\ k < Len(dl.sizes) \/ (k = Len(dl.sizes) /\ ~DlOver /\ k < dl.attempts)
             /\ dl.slept[k] >= 10 * Pow2(k) /\ dl.slept[k] < 10 * Pow2(k) + 10
        /\ DlOver => Len(dl.slept) = (IF dl.sizes = <<>> THEN 0 ELSE Len(dl.sizes) - 1)
        /\ (dl.ph = "raised" /\ dl.exc = "RuntimeError") =>
             /\ Len(dl.sizes) = dl.attempts
             /\ \A k \in 1..Len(dl.sizes) : dl.sizes[k] <= 0
             /\ dl.sizes # <<>> => dl.msg = dl.errs[Len(dl.errs)]
        /\ (dl.ph # "call" /\ (~dl.url.host \/ dl.url.form = "none"
                               \/ dl.url.idlen < MinIdLen)) =>
             (dl.ph = "raised" /\ dl.exc = "ValueError" /\ dl.sizes = <<>>)
        /\ (dl.ph = "raised" /\ dl.exc = "ValueError") => ~DriveIdFromUrl(dl.url)

\* three attempts out of four: an exception, an empty file, then the file
C29_Witness ==
    /\ pc = "download_from_drive" /\ dl.ph = "returned" /\ dl.attempts = 4
    /\ dl.url = [host |-> TRUE, form |-> "uc_id", idlen |-> 10]
    /\ dl.sizes = <<-1, 0, 1>>
    /\ dl.errs = <<"ConnectionError", "Zero-sized download", "none">>
    /\ dl.slept = <<25, 49>>

\* the two statuses are the same, or a completed test run by its two names
SameStatus(a, b) ==
    \/ a = b /\ a \notin {"tests_ran", "tests_passed", "tests_failed"}
    \/ a = "tests_ran" /\ b \in {"tests_passed", "tests_failed"}

\* C30: on the same task list and the same outcomes the two entry points
\* are at the same stage after every step, track the same containers and
\* volumes, end the same way, and have recorded the same task ids with the
\* same statuses, up to tests_ran against tests_passed / tests_failed.
C30_EntryPointsAgree ==
    pc = "pair" =>
        /\ pair.m.pc = pair.s.pc /\ pair.m.idx = pair.s.idx
        /\ pair.m.exit = pair.s.exit
        /\ pair.m.containers = pair.s.containers
        /\ pair.m.volumes = pair.s.volumes
        /\ Len(pair.m.results) = Len(pair.s.results)
        /\ \A k \in 1..Len(pair.m.results) :
             /\ pair.m.results[k].task_id = pair.s.results[k].task_id
             /\ SameStatus(pair.m.results[k].status, pair.s.results[k].status)

\* both ended after a failed test run of "a" and a failed container start
\* of "A", whose container name is the one of "a"
C30_Witness ==
    /\ pc = "pair" /\ pair.m.exit = "ok" /\ pair.s.exit = "ok" /\ ~pair.keep
    /\ pair.tasks = <<"a", "A">>
    /\ pair.m.results = <<[task_id |-> "a", status |-> "tests_ran"],
                          [task_id |-> "A", status |-> "run_failed"]>>
    /\ pair.s.results = <<[task_id |-> "a", status |-> "tests_failed"],
                          [task_id |-> "A", status |-> "run_failed"]>>

\* position of a key in the sorted order of keys
KeyRank(k) == CHOOSE n \in 1..Len(KeyOrder) : KeyOrder[n] = k

\* C32: once the summary is written, summary.json holds the result records
\* in order and summary.csv holds one row per record in the same order,
\* each cell the text of the record's value ("" where the record has no
\* such key), under a header that is the sorted union of the records' keys.
C32_SummaryEncodings ==
    pc = "done" =>
        /\ summary = all_results
        /\ summary_csv.written
        /\ Range(summary_csv.header) = UNION {DOMAIN summary[i] : i \in 1..Len(summary)}
        /\ \A a, b \in 1..Len(summary_csv.header) :
             a < b => KeyRank(summary_csv.header[a]) < KeyRank(summary_csv.header[b])
        /\ Len(summary_csv.rows) = Len(summary)
        /\ \A i \in 1..Len(summary) : \A j \in 1..Len(summary_csv.header) :
             LET k == summary_csv.header[j]
                 cell == summary_csv.rows[i][j]
             IN  /\ k \notin DOMAIN summary[i] => cell = ""
                 /\ k \in {"task_id", "status", "error"} \cap DOMAIN summary[i] =>
                      cell = summary[i][k]
                 /\ k \in {"tests_exit_code", "test_exit_code"} \cap DOMAIN summary[i] =>
                      cell = (IF summary[i][k] = <<>> THEN ""
                              ELSE IF summary[i][k][1] = 0 THEN "0" ELSE "1")
                 /\ k \in {"tests_ran_successfully"} \cap DOMAIN summary[i] =>
                      cell = (IF summary[i][k] THEN "True" ELSE "False")

\* a summary of main.py with three records of three different key sets
C32_Witness ==
    /\ pc = "done" /\ variant = "main" /\ Len(summary) = 3
    /\ summary[1].status = "run_failed"
    /\ summary[2].status = "tests_ran"
    /\ summary[3].status = "tests_error"
    /\ summary_csv.header = <<"error", "status", "task_id", "tests_exit_code",
                              "tests_ran_successfully">>
    /\ summary_csv.rows[1][1] = "" /\ summary_csv.rows[3][1] = "str(e)"

C33_AsStated == InCleanup("rmv") => UsersOf(Head(Top.todoV)) = {}

\* C33: a release-all pass issues the force-removal of every tracked
\* container before it touches a tracked volume; for each tracked volume it
\* first force-removes the containers the engine lists for the volume,
\* registered or not (an attempt whose failure is swallowed and leaves them),
\* and only then attempts to remove the volume, which the engine gives up
\* only when no container references it any more
C33_ReleaseOrder ==
    [][ /\ (frames # <<>> /\ Top.phase \in {"frv", "rmv"}) => Top.todoC = <<>>
        /\ (/\ frames # <<>> /\ frames' # <<>> /\ frames' # frames
            /\ Len(frames') = Len(frames)
            /\ frames'[Len(frames')].phase = "rmv")
           => /\ Top.phase = "frv"
              /\ frames'[Len(frames')].todoV = Top.todoV
              /\ \/ engC' = engC
                 \/ \A c \in ContainerNames :
                       engC'[c] = IF engC[c] = Head(Top.todoV) THEN NoVol
                                  ELSE engC[c]
        /\ (frames # <<>> /\ engV' # engV)
           => /\ Top.phase = "rmv"
              /\ engV' = engV \ {Head(Top.todoV)}
              /\ UsersOf(Head(Top.todoV)) = {}
      ]_vars

\* the pass has force-removed a tracked container and the users of a tracked
\* volume, and is about to remove the volume
C33_Witness ==
    /\ ~keep
    /\ InCleanup("rmv")
    /\ Head(Top.todoV) = "task_vol_a"
    /\ relC["container_a"] = 1
    /\ "container_a" \notin Range(containers)
    /\ UsersOf("task_vol_a") = {}
    /\ "task_vol_a" \in engV

\* the volumes of the first n tasks that ended with download_error or
\* unzip_error, in the order of the tasks
RECURSIVE ErrorVolumes(_)
ErrorVolumes(n) ==
    IF n = 0 THEN <<>>
    ELSE IF all_results[n].status \in {"download_error", "unzip_error"}
         THEN Append(ErrorVolumes(n - 1), VolumeName(tasks[n]))
         ELSE ErrorVolumes(n - 1)

\* the positions at which a test container of the current task is tracked
ContainerPcs == {"agent", "agent_blocked", "tests", "eot_rm_c", "eot_frv", "eot_rm_v"}

\* C34: without --keep the registry holds at most one container at every
\* point of the run, and then the test container of the task being
\* processed; when the pipeline of a task starts, the registry holds no
\* container and exactly the volumes of the earlier tasks that ended with
\* download_error or unzip_error
C34_RegistryContents ==
    ~keep =>
      /\ Len(containers) <= 1
      /\ containers # <<>> => /\ idx >= 1
                              /\ containers = <<CurCont>>
                              /\ pc \in ContainerPcs
      /\ AtMain("evict_frv") => /\ containers = <<>>
                                /\ Len(all_results) = idx - 1
                                /\ volumes = ErrorVolumes(idx - 1)

\* no name occurs twice in the list
NoDuplicates(lst) == \A i, j \in 1..Len(lst) : lst[i] = lst[j] => i = j

\* C35: for every input, rows with the same task_id included, no name occurs
\* more than once among the tracked containers or among the tracked volumes
C35_RegistryIsPairOfSets == NoDuplicates(containers) /\ NoDuplicates(volumes)

\* the step leaves alone the volume and the test container of every earlier
\* task whose id is not the id of the current task
EarlierTasksUntouched ==
    \A k \in 1..(idx - 1) :
        tasks[k] # CurTask =>
          /\ VolumeName(tasks[k]) \in engV => VolumeName(tasks[k]) \in engV'
          /\ engC[ContainerName(tasks[k])] = VolumeName(tasks[k])
                => engC'[ContainerName(tasks[k])] = VolumeName(tasks[k])

\* C36: the removals at the start of a task and the start of its test
\* container affect only resources of the same task id: they never remove or
\* replace the volume or the test container of an earlier task with another id
C36_EvictionOwnTaskOnly ==
    [][ (Running /\ frames = <<>> /\ idx >= 1
           /\ pc \in EvictionPcs \cup {"vol_create", "run"})
        => EarlierTasksUntouched ]_vars

\* C37: download_from_drive returns normally only if the attempt it returns
\* from has itself produced a non-empty file at out_path; a file that an
\* earlier failed attempt left there never makes an attempt that wrote
\* nothing a success
C37_ReturnsOnOwnFile ==
    (pc = "download_from_drive" /\ dl.ph = "returned")
        => (dl.outs # <<>> /\ dl.outs[Len(dl.outs)] = "file")

\* the task ids of the rows whose task_id is not empty after trimming, in
\* input order
NonBlankRows ==
    LET nb == SelectSeq(rows, LAMBDA c : ~BlankCell(c))
    IN  [i \in 1..Len(nb) |-> Strip(nb[i])]

\* C38: every row whose task_id is non-empty after trimming enters the
\* pipeline, and a run that reaches its end has exactly one record for it in
\* the summary; no non-blank string is taken for a missing task_id
C38_NonBlankRowsProcessed ==
    pc = "done" =>
        /\ tasks = NonBlankRows
        /\ Len(summary) = Len(NonBlankRows)
        /\ \A i \in 1..Len(summary) : summary[i].task_id = NonBlankRows[i]

====
